---- MODULE Spec2Model ----
(***************************************************************************)
(* Model of the multi-device orchestration layer of auto_mobile:          *)
(*   - DeviceManager.connect_all / _connect_device  (utils/device_manager) *)
(*   - MultiDeviceRunner.run_all / _run_device_task (utils/multi_runner)   *)
(*   - DeviceLogger registry and close_all          (utils/device_logger)  *)
(*   - main()                                       (main.py)              *)
(* Several specifications share the module, each driving one component:   *)
(* SpecConnect the connection manager, SpecRun the dispatcher, SpecAbort  *)
(* the dispatcher under cancellation, SpecHang and SpecHangFair the        *)
(* dispatcher with engine runs that hang, SpecLogger the logger registry,  *)
(* SpecInterp the event-stream interpreter, SpecMain main().  Coroutines   *)
(* are modelled one statement group per action, which is at least as fine *)
(* as the asyncio scheduler interleaves them (it switches only at an       *)
(* await).                                                                 *)
(***************************************************************************)
EXTENDS Integers, Sequences, FiniteSets, TLC

VARIABLES
    \* ---- DeviceManager.connect_all ----
    device_configs,   \* name index -> configuration mapping (input of connect_all)
    cpc,              \* position of each _connect_device coroutine
    attempt,          \* loop variable of the retry loop, per device
    serial,           \* resolved serial of each device
    checks,           \* statuses returned by _get_device_status, per device, in order
    connects,         \* "adb connect" commands issued per device
    disconnects,      \* "adb disconnect" commands issued per device (one per _reconnect_wireless call)
    delays,           \* asyncio.sleep(retry_delay) calls per device
    pending_cmd,      \* the "adb connect" the ensure step issued and how it ended, until the status check ran
    cm_pc,            \* position of connect_all
    connected_devices, \* list returned by connect_all
    \* ---- MultiDeviceRunner.run_all ----
    concurrency,      \* self.concurrency
    rpc,              \* position of run_all
    sem,              \* value of the asyncio.Semaphore
    holders,          \* tasks between acquire and release of the semaphore
    tpc,              \* position of each _run_device_task coroutine
    result,           \* the TaskResult object of each task
    agent_result,     \* value _run_agent_with_logging returned to each task
    raised,           \* exception raised in each task: where and its message
    task_results,     \* list returned by run_all
    loggers,          \* DeviceLogger.loggers: device name -> its log destination
    log_files,        \* DeviceLogger.log_files: device name -> log file path
    handlers,         \* device names whose logger has an open file handler
    files_created,    \* log file path -> number of times the file was opened
    close_calls,      \* number of DeviceLogger.close_all calls
    summary,          \* summary lines printed by ConsoleOutput.print_summary
    console,          \* header lines printed, and each device's console lines
    dlog,             \* log file path -> the lines written to the file
    \* ---- DeviceLogger.get_logger called from several tasks ----
    now,              \* the clock datetime.now() reads, in seconds
    lock,             \* holder of DeviceLogger._lock, 0 when free
    lpc,              \* position of each caller of get_logger
    larg,             \* device_name argument of each caller's current call
    lret,             \* what each caller's calls returned, in order
    \* ---- MultiDeviceRunner._run_agent_with_logging ----
    ipc,              \* position of the interpreter
    has_shared,       \* hasattr(agent, "shared_state")
    shared_step,      \* agent.shared_state.step_number
    last_step,        \* local variable last_step
    n_events,         \* events taken from the stream so far
    last_event,       \* the event handled last
    last_lines,       \* the log lines written for it
    n_lines,          \* number of log lines written so far
    printed_step,     \* step number of the latest line that prints one
    final_result,     \* value the engine handle yields when awaited
    iret,             \* value returned by the interpreter
    \* ---- main ----
    mpc,              \* position of main(); the exit status once it has exited
    \* ---- DeviceManager._get_device_status called on its own ----
    status_call       \* the call: serial asked for, command outcome, value returned

connVars == <<device_configs, cpc, attempt, serial, checks, connects,
              disconnects, delays, pending_cmd, cm_pc, connected_devices>>

runVars == <<concurrency, rpc, sem, holders, tpc, result, agent_result,
             raised, task_results, loggers, log_files, handlers,
             files_created, close_calls, summary, console, dlog>>

logVars == <<now, lock, lpc, larg, lret>>

itpVars == <<ipc, has_shared, shared_step, last_step, n_events, last_event,
             last_lines, n_lines, printed_step, final_result, iret>>

mainVars == <<mpc>>

statVars == <<status_call>>

-----------------------------------------------------------------------------
(* Bounds *)
NumConfigured == 2      \* number of entries of device_configs
NumDevices == 3         \* number of connected devices handed to run_all
MaxConcurrency == 2     \* largest configured concurrency

(* Program constants *)
max_retry == 3          \* DeviceManager.__init__ default, used by main()

ConfDevices == 1..NumConfigured
Devices == 1..NumDevices

-----------------------------------------------------------------------------
(* Strings the code inspects char by char are sequences of characters.     *)
HostA == <<"h">>
PortA == <<"5">>
Colon == <<":">>
SerialU == <<"u">>
SerialUX == <<"u", "x">>      \* another unit whose serial contains SerialU
SerialE == <<"E">>
EmptyStr == <<>>

NoValue == "None"

\* Device configurations as loaded from devices.yaml (no validation is done
\* by ConfigLoader.get_enabled_devices): a mapping that may lack keys.
ConfigList ==
    << [type |-> "wireless", host |-> HostA, port |-> PortA],
       [type |-> "bluetooth"],
       [type |-> "usb", serial |-> SerialU],
       [type |-> "wireless", port |-> PortA],
       [type |-> "emulator", serial |-> SerialE],
       [description |-> "no type"],
       [type |-> "usb"] >>

\* The fleets connect_all is run on: NumConfigured consecutive entries of
\* ConfigList (cyclically), so that every configuration occurs and has
\* different neighbours.
Fleet(k) ==
    [d \in ConfDevices |-> ConfigList[((k + d - 2) % Len(ConfigList)) + 1]]

\* dict.get(key, default)
Get(config, key, default) ==
    IF key \in DOMAIN config THEN config[key] ELSE default

DeviceType(config) == Get(config, "type", "unknown")

KnownKind(config) == DeviceType(config) \in {"wireless", "usb", "emulator"}

\* Variant: a kind that is not wireless is handled like usb
ResolveSerialLenient(config) ==
    IF DeviceType(config) = "wireless"
    THEN IF "host" \in DOMAIN config /\ "port" \in DOMAIN config
         THEN [ok |-> TRUE, serial |-> config.host \o Colon \o config.port]
         ELSE [ok |-> FALSE, exc |-> "KeyError"]
    ELSE [ok |-> TRUE, serial |-> Get(config, "serial", EmptyStr)]

\* Outcome of the serial resolution: a serial, or the exception raised.
ResolveSerial(config) ==
    IF DeviceType(config) = "wireless"
    THEN IF "host" \in DOMAIN config /\ "port" \in DOMAIN config
         THEN [ok |-> TRUE, serial |-> config.host \o Colon \o config.port]
         ELSE [ok |-> FALSE, exc |-> "KeyError"]
    ELSE IF DeviceType(config) \in {"usb", "emulator"}
         THEN [ok |-> TRUE, serial |-> Get(config, "serial", EmptyStr)]
         ELSE [ok |-> FALSE, exc |-> "ValueError"]

-----------------------------------------------------------------------------
(* adb devices: the listing is a sequence of lines "serial<TAB>status". *)
ListedSerials == {HostA \o Colon \o PortA, SerialU, SerialUX, SerialE}
ListedStatus == {"device", "offline"}
Lines == [serial : ListedSerials, status : ListedStatus]
MaxLines == 2
Listings == UNION { [1..n -> Lines] : n \in 0..MaxLines }

\* The text of a listing line: serial, a tab, the status word
Tab == <<"\t">>
StatusText(status) ==
    IF status = "device" THEN <<"d", "e", "v", "i", "c", "e">>
    ELSE <<"o", "f", "f", "l", "i", "n", "e">>
LineText(l) == l.serial \o Tab \o StatusText(l.status)

\* `serial in line`: substring test of Python's str.__contains__
IsSubstr(s, t) ==
    \E i \in 0..(Len(t) - Len(s)) :
        \A j \in 1..Len(s) : t[i + j] = s[j]

\* lines 175-180: the second token (line.split()[1]) of the first line that
\* contains serial anywhere in its text
RECURSIVE FirstMatch(_, _, _)
FirstMatch(ser, listing, i) ==
    IF i > Len(listing) THEN NoValue
    ELSE IF IsSubstr(ser, LineText(listing[i])) THEN listing[i].status
    ELSE FirstMatch(ser, listing, i + 1)

\* Outcome of the "adb devices" command: its output, or a failure (non-zero
\* exit, adb missing), which _get_device_status catches and turns into None
AdbDevicesOutcomes ==
    [ok : {TRUE}, listing : Listings] \cup [ok : {FALSE}, listing : {<<>>}]

GetDeviceStatus(ser, out) ==
    IF out.ok THEN FirstMatch(ser, out.listing, 1) ELSE NoValue

\* Variant: the helper is never called
CallsReconnectNever(device_type, status) == FALSE

\* line 112 / 117: the disconnect+reconnect helper is called for wireless only,
\* on every status other than "device"
CallsReconnect(device_type, status) == device_type = "wireless"

\* Variant: the connect command is issued for every kind of device
NeedsEnsureAlways(device_type) == TRUE

\* line 94: `if device_type == "wireless"` before the status check
NeedsEnsure(device_type) == device_type = "wireless"

\* Variant: the loop runs one attempt too many
IsLastAttemptLate(a) == a > max_retry

\* line 91: for attempt in range(1, max_retry + 1)
IsLastAttempt(a) == a >= max_retry

-----------------------------------------------------------------------------
\* A transport command: what was sent, in which attempt, and whether it
\* succeeded (_run_adb_command raises on a non-zero exit)
Command(cmd, att, ok) == [cmd |-> cmd, attempt |-> att, ok |-> ok]
NoCommand == [cmd |-> "none"]

ConnInit ==
    /\ \E k \in 1..Len(ConfigList) : device_configs = Fleet(k)
    /\ cpc = [d \in ConfDevices |-> "start"]
    /\ attempt = [d \in ConfDevices |-> 0]
    /\ serial = [d \in ConfDevices |-> NoValue]
    /\ checks = [d \in ConfDevices |-> <<>>]
    /\ connects = [d \in ConfDevices |-> 0]
    /\ disconnects = [d \in ConfDevices |-> 0]
    /\ delays = [d \in ConfDevices |-> 0]
    /\ pending_cmd = [d \in ConfDevices |-> NoCommand]
    /\ cm_pc = "gather"
    /\ connected_devices = <<>>

\* lines 77-91: resolve the serial, enter the retry loop or raise
ConnectStart(d) ==
    /\ UNCHANGED <<runVars, logVars, itpVars, mainVars, statVars>>
    /\ cpc[d] = "start"
    /\ LET r == ResolveSerial(device_configs[d]) IN
        IF r.ok
        THEN /\ serial' = [serial EXCEPT ![d] = r.serial]
             /\ attempt' = [attempt EXCEPT ![d] = 1]
             /\ cpc' = [cpc EXCEPT ![d] =
                    IF NeedsEnsure(DeviceType(device_configs[d]))
                    THEN "ensure" ELSE "check"]
        ELSE /\ cpc' = [cpc EXCEPT ![d] = r.exc]
             /\ UNCHANGED <<serial, attempt>>
    /\ UNCHANGED <<device_configs, checks, connects, disconnects, delays,
                   pending_cmd, cm_pc, connected_devices>>

\* Variant: a failed connect command ends the attempt
AfterEnsureStrict(ok) == IF ok THEN "check" ELSE "sleep"

\* lines 141-143: `except Exception: pass`, the status check follows
AfterEnsure(ok) == "check"

\* lines 94-97, 131-143: best-effort "adb connect", failure ignored
EnsureWirelessConnection(d) ==
    /\ UNCHANGED <<runVars, logVars, itpVars, mainVars, statVars>>
    /\ cpc[d] = "ensure"
    /\ \E ok \in BOOLEAN :
        /\ connects' = [connects EXCEPT ![d] = @ + 1]
        /\ pending_cmd' = [pending_cmd EXCEPT ![d] =
                           Command("connect", attempt[d], ok)]
        /\ cpc' = [cpc EXCEPT ![d] = AfterEnsure(ok)]
    /\ UNCHANGED <<device_configs, attempt, serial, checks, disconnects,
                   delays, cm_pc, connected_devices>>

\* lines 100-119: status check and the branch on its result
CheckStatus(d) ==
    /\ UNCHANGED <<runVars, logVars, itpVars, mainVars, statVars>>
    /\ cpc[d] = "check"
    /\ \E status \in {GetDeviceStatus(serial[d], out) :
                           out \in AdbDevicesOutcomes} :
        /\ checks' = [checks EXCEPT ![d] = Append(@, status)]
        /\ cpc' = [cpc EXCEPT ![d] =
              IF status = "device" THEN "ready"
              ELSE IF CallsReconnect(DeviceType(device_configs[d]), status)
                   THEN "disconnect" ELSE "sleep"]
    /\ pending_cmd' = [pending_cmd EXCEPT ![d] = NoCommand]
    /\ UNCHANGED <<device_configs, attempt, serial, connects, disconnects,
                   delays, cm_pc, connected_devices>>

\* lines 152-154: _reconnect_wireless issues "adb disconnect"; when it fails
\* the except clause ends the helper without the reconnect
ReconnectDisconnect(d) ==
    /\ UNCHANGED <<runVars, logVars, itpVars, mainVars, statVars>>
    /\ cpc[d] = "disconnect"
    /\ disconnects' = [disconnects EXCEPT ![d] = @ + 1]
    /\ \E ok \in BOOLEAN :
        cpc' = [cpc EXCEPT ![d] = IF ok THEN "reconnect" ELSE "sleep"]
    /\ UNCHANGED <<device_configs, attempt, serial, checks, connects,
                   delays, pending_cmd, cm_pc, connected_devices>>

\* lines 155-160: sleep(1), then "adb connect", failure ignored
ReconnectConnect(d) ==
    /\ UNCHANGED <<runVars, logVars, itpVars, mainVars, statVars>>
    /\ cpc[d] = "reconnect"
    /\ \E ok \in BOOLEAN :
        /\ connects' = [connects EXCEPT ![d] = @ + 1]
        /\ cpc' = [cpc EXCEPT ![d] = "sleep"]
    /\ UNCHANGED <<device_configs, attempt, serial, checks, disconnects,
                   delays, pending_cmd, cm_pc, connected_devices>>

\* lines 114/119, then the loop header (91) or the raise after the loop (129)
RetryDelay(d) ==
    /\ UNCHANGED <<runVars, logVars, itpVars, mainVars, statVars>>
    /\ cpc[d] = "sleep"
    /\ delays' = [delays EXCEPT ![d] = @ + 1]
    /\ IF IsLastAttempt(attempt[d])
       THEN /\ cpc' = [cpc EXCEPT ![d] = "ConnectionError"]
            /\ UNCHANGED attempt
       ELSE /\ attempt' = [attempt EXCEPT ![d] = @ + 1]
            /\ cpc' = [cpc EXCEPT ![d] =
                   IF NeedsEnsure(DeviceType(device_configs[d]))
                   THEN "ensure" ELSE "check"]
    /\ UNCHANGED <<device_configs, serial, checks, connects, disconnects,
                   pending_cmd, cm_pc, connected_devices>>

Exceptions == {"KeyError", "ValueError", "ConnectionError"}
ConnTerminal == {"ready"} \cup Exceptions

\* lines 104-109: the value a task that reached "ready" returns
ConnectedDevice(d) ==
    [name |-> d, serial |-> serial[d],
     device_type |-> DeviceType(device_configs[d])]

\* Variant: gather without return_exceptions
ReturnExceptionsOff == FALSE

\* line 50: asyncio.gather(*tasks, return_exceptions=True)
ReturnExceptions == TRUE

\* lines 52-57: keep the ConnectedDevice results, in task order
RECURSIVE CollectConnected(_)
CollectConnected(i) ==
    IF i = 0 THEN <<>>
    ELSE IF cpc[i] = "ready"
         THEN Append(CollectConnected(i - 1), ConnectedDevice(i))
         ELSE CollectConnected(i - 1)

\* lines 50-60: the join.  With return_exceptions the join waits for every
\* task and never raises; without it the first exception of a task would be
\* re-raised in connect_all.
ConnectAllJoin ==
    /\ UNCHANGED <<runVars, logVars, itpVars, mainVars, statVars>>
    /\ cm_pc = "gather"
    /\ IF ReturnExceptions \/ \A d \in ConfDevices : cpc[d] \notin Exceptions
       THEN /\ \A d \in ConfDevices : cpc[d] \in ConnTerminal
            /\ cm_pc' = "returned"
            /\ connected_devices' = CollectConnected(NumConfigured)
       ELSE /\ cm_pc' = "raised"
            /\ UNCHANGED connected_devices
    /\ UNCHANGED <<device_configs, cpc, attempt, serial, checks, connects,
                   disconnects, delays, pending_cmd>>

ConnNext ==
    \/ \E d \in ConfDevices : ConnectStart(d)
    \/ \E d \in ConfDevices : EnsureWirelessConnection(d)
    \/ \E d \in ConfDevices : CheckStatus(d)
    \/ \E d \in ConfDevices : ReconnectDisconnect(d)
    \/ \E d \in ConfDevices : ReconnectConnect(d)
    \/ \E d \in ConfDevices : RetryDelay(d)
    \/ ConnectAllJoin

-----------------------------------------------------------------------------
(* DeviceLogger *)

\* Threads or tasks that call get_logger, calls made by each, clock readings
NumCallers == 2
MaxCalls == 1
MaxClock == 1
Callers == 1..NumCallers
NoCaller == 0

EmptyMap == [k \in {} |-> k]

\* dict[key] = value
Put(f, k, v) == (k :> v) @@ f

\* one more opening of the file at path p
Incr(f, p) == IF p \in DOMAIN f THEN [f EXCEPT ![p] = @ + 1] ELSE Put(f, p, 1)

\* device_logger.py 39-40: log_dir / f"{device_name}_{timestamp}.log"
LogPath(device_name, t) == [device |-> device_name, stamp |-> t]

\* device_logger.py 37: device_name in self.loggers
HasLogger(reg, device_name) == device_name \in DOMAIN reg

\* Device names the callers ask for
LogNames == {ToString(1), ToString(2)}

\* The state of the dispatcher, which get_logger does not touch
dispatchVars == <<concurrency, rpc, sem, holders, tpc, result, agent_result,
                  raised, task_results, close_calls, summary, console, dlog>>

\* Variant: the creation path is entered without mutual exclusion
LockFreeAlways(l) == TRUE

\* device_logger.py 36: `with self._lock` is entered when no one holds it
LockFree(l) == l = NoCaller

\* datetime.now() moves on between calls
Tick ==
    /\ now < MaxClock
    /\ now' = now + 1
    /\ UNCHANGED <<lock, lpc, larg, lret, loggers, log_files, handlers,
                   files_created>>
    /\ UNCHANGED <<connVars, dispatchVars, itpVars, mainVars, statVars>>

\* device_logger.py 27: get_logger(device_name) is called
GetLoggerCall(c, name) ==
    /\ lpc[c] = "idle"
    /\ Len(lret[c]) < MaxCalls
    /\ lpc' = [lpc EXCEPT ![c] = "lock"]
    /\ larg' = [larg EXCEPT ![c] = name]
    /\ UNCHANGED <<now, lock, lret, loggers, log_files, handlers,
                   files_created>>
    /\ UNCHANGED <<connVars, dispatchVars, itpVars, mainVars, statVars>>

\* device_logger.py 36: with self._lock
GetLoggerLock(c) ==
    /\ lpc[c] = "lock"
    /\ LockFree(lock)
    /\ lock' = c
    /\ lpc' = [lpc EXCEPT ![c] = "check"]
    /\ UNCHANGED <<now, larg, lret, loggers, log_files, handlers,
                   files_created>>
    /\ UNCHANGED <<connVars, dispatchVars, itpVars, mainVars, statVars>>

\* device_logger.py 37: if device_name not in self.loggers
GetLoggerCheck(c) ==
    /\ lpc[c] = "check"
    /\ lpc' = [lpc EXCEPT ![c] =
                 IF HasLogger(loggers, larg[c]) THEN "return" ELSE "path"]
    /\ UNCHANGED <<now, lock, larg, lret, loggers, log_files, handlers,
                   files_created>>
    /\ UNCHANGED <<connVars, dispatchVars, itpVars, mainVars, statVars>>

\* device_logger.py 39-41: the path is built from the name and the clock and
\* recorded in log_files
GetLoggerPath(c) ==
    /\ lpc[c] = "path"
    /\ log_files' = Put(log_files, larg[c], LogPath(larg[c], now))
    /\ lpc' = [lpc EXCEPT ![c] = "open"]
    /\ UNCHANGED <<now, lock, larg, lret, loggers, handlers, files_created>>
    /\ UNCHANGED <<connVars, dispatchVars, itpVars, mainVars, statVars>>

\* device_logger.py 44-61: the file handler opens the recorded path and the
\* logger is registered; if the open fails the exception leaves get_logger
\* through the with statement, which releases the lock
GetLoggerOpen(c) ==
    /\ lpc[c] = "open"
    /\ LET name == larg[c]
           path == log_files[name] IN
       \/ /\ files_created' = Incr(files_created, path)
          /\ handlers' = handlers \cup {name}
          /\ loggers' = Put(loggers, name, path)
          /\ lpc' = [lpc EXCEPT ![c] = "return"]
          /\ UNCHANGED <<lock, lret>>
       \/ /\ lret' = [lret EXCEPT ![c] =
                        Append(@, [name |-> name, raised |-> TRUE])]
          /\ lock' = IF lock = c THEN NoCaller ELSE lock
          /\ lpc' = [lpc EXCEPT ![c] = "idle"]
          /\ UNCHANGED <<files_created, handlers, loggers>>
    /\ UNCHANGED <<now, larg, log_files>>
    /\ UNCHANGED <<connVars, dispatchVars, itpVars, mainVars, statVars>>

\* device_logger.py 63: return self.loggers[device_name]; the lock is released
GetLoggerReturn(c) ==
    /\ lpc[c] = "return"
    /\ lret' = [lret EXCEPT ![c] =
                  Append(@, [name |-> larg[c], raised |-> FALSE,
                             dest |-> loggers[larg[c]]])]
    /\ lock' = IF lock = c THEN NoCaller ELSE lock
    /\ lpc' = [lpc EXCEPT ![c] = "idle"]
    /\ UNCHANGED <<now, larg, loggers, log_files, handlers, files_created>>
    /\ UNCHANGED <<connVars, dispatchVars, itpVars, mainVars, statVars>>

LoggerNext ==
    \/ Tick
    \/ \E c \in Callers, name \in LogNames : GetLoggerCall(c, name)
    \/ \E c \in Callers : GetLoggerLock(c)
    \/ \E c \in Callers : GetLoggerCheck(c)
    \/ \E c \in Callers : GetLoggerPath(c)
    \/ \E c \in Callers : GetLoggerOpen(c)
    \/ \E c \in Callers : GetLoggerReturn(c)

-----------------------------------------------------------------------------
(* MultiDeviceRunner *)

\* Variant: every device carries the same name
DeviceNameShared(d) == "device"

\* device.name; the names are the keys of the `devices` mapping of
\* devices.yaml, so no two devices share one
DeviceName(d) == ToString(d)

\* get_concurrency returns the "concurrency" entry of devices.yaml unchecked
ConcurrencyValues == (-1)..MaxConcurrency

\* Message of the exceptions the collaborators raise
Messages == {"model timeout"}

\* What the engine handle yields when awaited: a mapping, or None
AgentResults ==
    { [success |-> TRUE, output |-> "done"],
      [success |-> FALSE, output |-> "gave up"],
      [steps |-> 0],
      [none |-> TRUE] }
IsMapping(r) == "none" \notin DOMAIN r
NoAgentResult == [pending |-> TRUE]
NoneTypeMessage == "'NoneType' object has no attribute 'get'"

\* time.time() - start_time, a positive span; 0 is the constructor's 0.0
Elapsed == 1

\* Variant: the constructor presets an error text
TaskResultPresetError(device_name) ==
    [device_name |-> device_name, success |-> FALSE, output |-> "",
     error |-> "not run", duration |-> 0]

\* lines 38-46: TaskResult.__init__
TaskResult(device_name) ==
    [device_name |-> device_name, success |-> FALSE, output |-> "",
     error |-> "", duration |-> 0]

NoException == [where |-> "none", msg |-> ""]

\* lines 214-216: store the engine's result
StoreResult(res, ar) ==
    [res EXCEPT !.success = Get(ar, "success", FALSE),
                !.output = Get(ar, "output", ""),
                !.duration = Elapsed]

\* Variant: the except clause forgets the duration
ExceptResultNoDuration(res, m) ==
    [res EXCEPT !.success = FALSE, !.error = m]

\* lines 229-232: the except clause of the task body
ExceptResult(res, m) ==
    [res EXCEPT !.success = FALSE, !.error = m, !.duration = Elapsed]

\* Variant: the gate is built one slot too large
GateCapacityPlusOne(c) == c + 1

\* line 97: asyncio.Semaphore(self.concurrency)
GateCapacity(c) == c

\* Variant: acquire also proceeds at value 0
CanAcquireAtZero(v) == v >= 0

\* Semaphore.acquire proceeds only while the value is positive
CanAcquire(v) == v > 0

\* Variant: the slot is released on the normal exit only
GateExitNormalOnly(v, h, d, byException) ==
    IF byException THEN [sem |-> v, holders |-> h]
    ELSE [sem |-> v + 1, holders |-> h \ {d}]

\* line 159: __aexit__ of `async with semaphore` releases the slot on every
\* exit of the block, by exception or not
GateExit(v, h, d, byException) == [sem |-> v + 1, holders |-> h \ {d}]

\* Variant: gather without return_exceptions
RunReturnExceptionsOff == FALSE

\* line 106: asyncio.gather(*tasks, return_exceptions=True)
RunReturnExceptions == TRUE

TaskTerminal == {"returned", "raised"}
WorkPcs == {"tools", "llm", "agent", "events", "store"}

\* Variant: the join completes with the first settled task
JoinReadyFirst == \E d \in Devices : tpc[d] \in TaskTerminal

\* line 106: the join completes when every task has returned or raised
JoinReady == \A d \in Devices : tpc[d] \in TaskTerminal

\* Variant: gathered exceptions are dropped
ProcessResultDropExceptions(d) ==
    IF tpc[d] = "returned" THEN <<result[d]>> ELSE <<>>

\* lines 110-116: one gathered value -> zero or one TaskResult
ProcessResult(d) ==
    IF tpc[d] = "returned" THEN <<result[d]>>
    ELSE IF tpc[d] = "raised"
         THEN <<[TaskResult("unknown") EXCEPT !.error = raised[d].msg]>>
         ELSE <<>>

RECURSIVE ProcessResults(_)
ProcessResults(i) ==
    IF i = 0 THEN <<>> ELSE ProcessResults(i - 1) \o ProcessResult(i)

\* line 123: sum(1 for r in task_results if r.success)
RECURSIVE SuccessCount(_)
SuccessCount(rs) ==
    IF rs = <<>> THEN 0
    ELSE (IF rs[1].success THEN 1 ELSE 0) + SuccessCount(Tail(rs))

\* One line of a device log: the task that wrote it, its level, and the
\* block of _run_device_task it belongs to
Entry(d, level, tag) == [writer |-> d, level |-> level, tag |-> tag]

\* lines 152-157, 164, 168, 201, 210, 222-227: the info lines of one block
InfoLine(d, tag) == <<Entry(d, "info", tag)>>

\* lines 233 and 235: logger.error(message), logger.error(traceback)
ErrorLines(d) == <<Entry(d, "error", "failed"), Entry(d, "error", "traceback")>>

Content(log, path) == IF path \in DOMAIN log THEN log[path] ELSE <<>>

\* logger.info / logger.error of the logger registered under `name`: its file
\* handler appends the lines to its file; a logger whose handler was closed
\* and removed (device_logger.py 89-91) drops them
LogWrite(log, reg, open, name, lines) ==
    IF name \in open
    THEN Put(log, reg[name], Content(log, reg[name]) \o lines)
    ELSE log

NoConsole == [header |-> 0, dev |-> [d \in Devices |-> <<>>]]

\* Variant: the device lines are not printed
ConsoleLineSilent(con, d, kind) == con

\* device_logger.py 123-153: print_device_started, print_device_done
ConsoleLine(con, d, kind) == [con EXCEPT !.dev[d] = Append(@, kind)]

RunInit ==
    /\ console = NoConsole
    /\ dlog = EmptyMap
    /\ concurrency \in ConcurrencyValues
    /\ rpc = "start"
    /\ sem = 0
    /\ holders = {}
    /\ tpc = [d \in Devices |-> "unborn"]
    /\ result = [d \in Devices |-> TaskResult("")]
    /\ agent_result = [d \in Devices |-> NoAgentResult]
    /\ raised = [d \in Devices |-> NoException]
    /\ task_results = <<>>
    /\ loggers = EmptyMap
    /\ log_files = EmptyMap
    /\ handlers = {}
    /\ files_created = EmptyMap
    /\ close_calls = 0
    /\ summary = <<>>

\* lines 84-93: DeviceLogger(), ConsoleOutput(), print_header, start
RunStart ==
    /\ UNCHANGED <<connVars, logVars, itpVars, mainVars, statVars>>
    /\ rpc = "start"
    /\ rpc' = "try"
    /\ console' = [console EXCEPT !.header = @ + 1]
    /\ UNCHANGED <<concurrency, sem, holders, tpc, result, agent_result,
                   raised, task_results, loggers, log_files, files_created, handlers,
                   close_calls, summary, dlog>>

\* lines 97-106: build the gate (ValueError for a negative value), create one
\* coroutine per device and hand them to gather
Dispatch ==
    /\ UNCHANGED <<connVars, logVars, itpVars, mainVars, statVars>>
    /\ rpc = "try"
    /\ IF GateCapacity(concurrency) < 0
       THEN /\ rpc' = "finally_exc"
            /\ UNCHANGED <<sem, tpc>>
       ELSE /\ sem' = GateCapacity(concurrency)
            /\ tpc' = [d \in Devices |-> "new"]
            /\ rpc' = "gather"
    /\ UNCHANGED <<concurrency, holders, result, agent_result, raised,
                   task_results, loggers, log_files, files_created, handlers, close_calls,
                   summary, console, dlog>>

\* lines 142-157: TaskResult, get_logger (device_logger.py 36-63), log path,
\* "started" line.  Opening the log file may fail: log_files already has the
\* entry (line 41), the registry not yet (line 61), and the exception leaves
\* the task.
TaskGetLogger(d) ==
    /\ UNCHANGED <<connVars, logVars, itpVars, mainVars, statVars>>
    /\ tpc[d] = "new"
    /\ LET name == DeviceName(d)
           path == LogPath(name, now) IN
       IF HasLogger(loggers, name)
       THEN /\ result' = [result EXCEPT ![d] = TaskResult(name)]
            /\ tpc' = [tpc EXCEPT ![d] = "acquire"]
            /\ console' = ConsoleLine(console, d, "started")
            /\ dlog' = LogWrite(dlog, loggers, handlers, name,
                                InfoLine(d, "started"))
            /\ UNCHANGED <<loggers, log_files, handlers, files_created, raised>>
       ELSE \/ /\ log_files' = Put(log_files, name, path)
               /\ files_created' = Incr(files_created, path)
               /\ loggers' = Put(loggers, name, path)
               /\ handlers' = handlers \cup {name}
               /\ result' = [result EXCEPT ![d] = TaskResult(name)]
               /\ tpc' = [tpc EXCEPT ![d] = "acquire"]
               /\ console' = ConsoleLine(console, d, "started")
               /\ dlog' = LogWrite(dlog, loggers', handlers', name,
                                   InfoLine(d, "started"))
               /\ UNCHANGED raised
            \/ \E m \in Messages :
               /\ log_files' = Put(log_files, name, path)
               /\ result' = [result EXCEPT ![d] = TaskResult(name)]
               /\ raised' = [raised EXCEPT ![d] =
                                [where |-> "logger", msg |-> m]]
               /\ tpc' = [tpc EXCEPT ![d] = "raised"]
               /\ UNCHANGED <<loggers, handlers, files_created, console,
                              dlog>>
    /\ UNCHANGED <<concurrency, rpc, sem, holders, agent_result,
                   task_results, close_calls, summary>>

\* lines 159-160: __aenter__ of `async with semaphore`
TaskAcquire(d) ==
    /\ UNCHANGED <<connVars, logVars, itpVars, mainVars, statVars>>
    /\ tpc[d] = "acquire"
    /\ CanAcquire(sem)
    /\ sem' = sem - 1
    /\ holders' = holders \cup {d}
    /\ tpc' = [tpc EXCEPT ![d] = "tools"]
    /\ UNCHANGED <<concurrency, rpc, result, agent_result, raised,
                   task_results, loggers, log_files, files_created, handlers, close_calls,
                   summary, console, dlog>>

\* A step of the task body raised m after it wrote the lines `pre`: except
\* clause (229-235), then the gate is left (159) and the task goes on to its
\* "done" line
TaskCatch(d, m, pre) ==
    LET g == GateExit(sem, holders, d, TRUE) IN
    /\ result' = [result EXCEPT ![d] = ExceptResult(@, m)]
    /\ dlog' = LogWrite(dlog, loggers, handlers, DeviceName(d),
                        pre \o ErrorLines(d))
    /\ raised' = [raised EXCEPT ![d] = [where |-> tpc[d], msg |-> m]]
    /\ sem' = g.sem
    /\ holders' = g.holders
    /\ tpc' = [tpc EXCEPT ![d] = "done"]

\* A construction step of the task body either completes or raises
ConstructStep(d, next) ==
    /\ \/ /\ tpc' = [tpc EXCEPT ![d] = next]
          /\ dlog' = LogWrite(dlog, loggers, handlers, DeviceName(d),
                              InfoLine(d, tpc[d]))
          /\ UNCHANGED <<result, raised, sem, holders>>
       \/ \E m \in Messages : TaskCatch(d, m, InfoLine(d, tpc[d]))
    /\ UNCHANGED <<concurrency, rpc, agent_result, task_results, loggers,
                   log_files, files_created, handlers, close_calls, summary,
                   console>>

\* lines 164-165: AdbTools(serial=device.serial)
TaskTools(d) ==
    /\ UNCHANGED <<connVars, logVars, itpVars, mainVars, statVars>>
    /\ tpc[d] = "tools"
    /\ ConstructStep(d, "llm")

\* lines 168-198: OpenAILike(...), trajectory path
TaskLLM(d) ==
    /\ UNCHANGED <<connVars, logVars, itpVars, mainVars, statVars>>
    /\ tpc[d] = "llm"
    /\ ConstructStep(d, "agent")

\* lines 201-207: DroidAgent(...)
TaskAgent(d) ==
    /\ UNCHANGED <<connVars, logVars, itpVars, mainVars, statVars>>
    /\ tpc[d] = "agent"
    /\ ConstructStep(d, "events")

\* lines 211, 264-343: consume the event stream, then await the handle
TaskEvents(d) ==
    /\ UNCHANGED <<connVars, logVars, itpVars, mainVars, statVars>>
    /\ tpc[d] = "events"
    /\ \/ \E ar \in AgentResults :
            /\ agent_result' = [agent_result EXCEPT ![d] = ar]
            /\ tpc' = [tpc EXCEPT ![d] = "store"]
            /\ dlog' = LogWrite(dlog, loggers, handlers, DeviceName(d),
                                InfoLine(d, "execution"))
            /\ UNCHANGED <<result, raised, sem, holders>>
       \/ \E m \in Messages :
            /\ TaskCatch(d, m, InfoLine(d, "execution"))
            /\ UNCHANGED agent_result
    /\ UNCHANGED <<concurrency, rpc, task_results, loggers, log_files, files_created,
                   handlers, close_calls, summary, console>>

\* lines 213-227: result extraction; agent_result.get fails on None
TaskStore(d) ==
    /\ UNCHANGED <<connVars, logVars, itpVars, mainVars, statVars>>
    /\ tpc[d] = "store"
    /\ IF IsMapping(agent_result[d])
       THEN LET g == GateExit(sem, holders, d, FALSE) IN
            /\ result' = [result EXCEPT ![d] = StoreResult(@, agent_result[d])]
            /\ sem' = g.sem
            /\ holders' = g.holders
            /\ tpc' = [tpc EXCEPT ![d] = "done"]
            /\ dlog' = LogWrite(dlog, loggers, handlers, DeviceName(d),
                                InfoLine(d, "completed"))
            /\ UNCHANGED raised
       ELSE TaskCatch(d, NoneTypeMessage, <<>>)
    /\ UNCHANGED <<concurrency, rpc, agent_result, task_results, loggers,
                   log_files, files_created, handlers, close_calls, summary,
                   console>>

\* lines 238-246: "done"/"failed" line, return result
TaskReturn(d) ==
    /\ UNCHANGED <<connVars, logVars, itpVars, mainVars, statVars>>
    /\ tpc[d] = "done"
    /\ tpc' = [tpc EXCEPT ![d] = "returned"]
    /\ console' = ConsoleLine(console, d,
                              IF result[d].success THEN "done" ELSE "failed")
    /\ UNCHANGED <<concurrency, rpc, sem, holders, result, agent_result,
                   raised, task_results, loggers, log_files, files_created, handlers,
                   close_calls, summary, dlog>>

\* lines 106-116: the join and the processing of the gathered values.
\* Without return_exceptions the first exception leaving a task would be
\* re-raised here.
JoinAndProcess ==
    /\ UNCHANGED <<connVars, logVars, itpVars, mainVars, statVars>>
    /\ rpc = "gather"
    /\ IF RunReturnExceptions \/ \A d \in Devices : tpc[d] # "raised"
       THEN /\ JoinReady
            /\ task_results' = ProcessResults(NumDevices)
            /\ rpc' = "finally"
       ELSE /\ rpc' = "finally_exc"
            /\ UNCHANGED task_results
    /\ UNCHANGED <<concurrency, sem, holders, tpc, result, agent_result,
                   raised, loggers, log_files, files_created, handlers, close_calls,
                   summary, console, dlog>>

\* Variant: the release step is skipped when the dispatch phase exits by error
FinallyClosesNormalOnly(on_error) == ~on_error

\* line 118: `finally:` runs close_all however the try block was left
FinallyCloses(on_error) == TRUE

\* device_logger.py 86-92: every handler of every registered logger is closed
\* and removed
CloseAllHandlers(open, reg) == {n \in open : ~HasLogger(reg, n)}

\* lines 118-120: close_all in the finally clause; then the pending exception,
\* if any, leaves run_all
CloseAll ==
    /\ UNCHANGED <<connVars, logVars, itpVars, mainVars, statVars>>
    /\ rpc \in {"finally", "finally_exc"}
    /\ IF FinallyCloses(rpc = "finally_exc")
       THEN /\ handlers' = CloseAllHandlers(handlers, loggers)
            /\ close_calls' = close_calls + 1
       ELSE UNCHANGED <<handlers, close_calls>>
    /\ rpc' = IF rpc = "finally" THEN "summary" ELSE "raised"
    /\ UNCHANGED <<concurrency, sem, holders, tpc, result, agent_result,
                   raised, task_results, loggers, log_files, files_created, summary,
                   console, dlog>>

\* Variant: every result is counted as a success
SummaryLineCountsAll(rs) ==
    [success_count |-> Len(rs), total_count |-> Len(rs)]

\* lines 123-124, device_logger.py 155-167: the totals line carries the
\* success count and the total (and the elapsed time, left out here)
SummaryLine(rs) ==
    [success_count |-> SuccessCount(rs), total_count |-> Len(rs)]

\* lines 123-126: print_summary, return task_results
PrintSummary ==
    /\ UNCHANGED <<connVars, logVars, itpVars, mainVars, statVars>>
    /\ rpc = "summary"
    /\ summary' = Append(summary, SummaryLine(task_results))
    /\ rpc' = "returned"
    /\ UNCHANGED <<concurrency, sem, holders, tpc, result, agent_result,
                   raised, task_results, loggers, log_files, files_created, handlers,
                   close_calls, console, dlog>>

RunNext ==
    \/ RunStart
    \/ Dispatch
    \/ \E d \in Devices : TaskGetLogger(d)
    \/ \E d \in Devices : TaskAcquire(d)
    \/ \E d \in Devices : TaskTools(d)
    \/ \E d \in Devices : TaskLLM(d)
    \/ \E d \in Devices : TaskAgent(d)
    \/ \E d \in Devices : TaskEvents(d)
    \/ \E d \in Devices : TaskStore(d)
    \/ \E d \in Devices : TaskReturn(d)
    \/ JoinAndProcess
    \/ CloseAll
    \/ PrintSummary

\* The points where a device task can be suspended: not yet started, waiting
\* at the gate (159), consuming events or awaiting the handle (272, 341)
SuspensionPcs == {"new", "acquire", "events"}

\* The join is aborted: the task running run_all is cancelled while it awaits
\* gather (line 106).  The event loop delivers the cancellation between the
\* steps of the coroutines, so every unfinished child is at a suspension
\* point.  gather cancels these children: CancelledError is not an Exception,
\* so the except clause (229) is skipped and no result is stored, while
\* `async with` (159) still releases the slot of a child that holds one.
\* Once all children have finished, CancelledError leaves `await gather` and
\* control reaches the finally clause.
AbortJoin ==
    /\ UNCHANGED <<connVars, logVars, itpVars, mainVars, statVars>>
    /\ rpc = "gather"
    /\ \A d \in Devices : tpc[d] \in SuspensionPcs \cup TaskTerminal
    /\ LET cancelled == {d \in Devices : tpc[d] \in SuspensionPcs} IN
       /\ tpc' = [d \in Devices |->
                    IF d \in cancelled THEN "cancelled" ELSE tpc[d]]
       /\ holders' = holders \ cancelled
       /\ sem' = sem + Cardinality(holders \cap cancelled)
    /\ rpc' = "finally_exc"
    /\ UNCHANGED <<concurrency, result, agent_result, raised, task_results,
                   loggers, log_files, files_created, handlers, close_calls,
                   summary, console, dlog>>

AbortNext ==
    \/ RunStart
    \/ Dispatch
    \/ \E d \in Devices : TaskGetLogger(d)
    \/ \E d \in Devices : TaskAcquire(d)
    \/ \E d \in Devices : TaskTools(d)
    \/ \E d \in Devices : TaskLLM(d)
    \/ \E d \in Devices : TaskAgent(d)
    \/ \E d \in Devices : TaskEvents(d)
    \/ \E d \in Devices : TaskStore(d)
    \/ \E d \in Devices : TaskReturn(d)
    \/ JoinAndProcess
    \/ CloseAll
    \/ PrintSummary
    \/ AbortJoin

\* lines 210-211, 272: the task wrote "Starting task execution..." and awaits
\* the engine's events, and the engine never yields again: the coroutine
\* stays suspended inside the gate block and keeps its slot
TaskHang(d) ==
    /\ UNCHANGED <<connVars, logVars, itpVars, mainVars, statVars>>
    /\ tpc[d] = "events"
    /\ tpc' = [tpc EXCEPT ![d] = "hung"]
    /\ dlog' = LogWrite(dlog, loggers, handlers, DeviceName(d),
                        InfoLine(d, "execution"))
    /\ UNCHANGED <<concurrency, rpc, sem, holders, result, agent_result,
                   raised, task_results, loggers, log_files, files_created,
                   handlers, close_calls, summary, console>>

HangNext ==
    \/ RunStart
    \/ Dispatch
    \/ \E d \in Devices : TaskGetLogger(d)
    \/ \E d \in Devices : TaskAcquire(d)
    \/ \E d \in Devices : TaskTools(d)
    \/ \E d \in Devices : TaskLLM(d)
    \/ \E d \in Devices : TaskAgent(d)
    \/ \E d \in Devices : TaskEvents(d)
    \/ \E d \in Devices : TaskHang(d)
    \/ \E d \in Devices : TaskStore(d)
    \/ \E d \in Devices : TaskReturn(d)
    \/ JoinAndProcess
    \/ CloseAll
    \/ PrintSummary

-----------------------------------------------------------------------------
(* Event-stream interpreter: MultiDeviceRunner._run_agent_with_logging *)

\* Events consumed from one stream, values of the engine's step counter
MaxEvents == 2
MaxStep == 1

\* Preview cutoffs
ThoughtCutoff == 200
ThinkingCodeCutoff == 150
ExecutionCodeCutoff == 100
OutputCutoff == 150
PlanThoughtCutoff == 150

\* Texts are sequences of characters
Pad(n) == [i \in 1..n |-> "a"]
Ellipsis == <<".", ".", ".">>
ErrorMarker == <<"E", "r", "r", "o", "r">>
ExceptionMarker == <<"E", "x", "c", "e", "p", "t", "i", "o", "n">>
LowerError == <<"e", "r", "r", "o", "r">>
ShortText == <<"o", "k">>
ActionCompleted == <<"(", "a", "c", "t", "i", "o", "n", " ", "c", "o", "m",
                     "p", "l", "e", "t", "e", "d", ")">>
NoStep == -1

\* Variant: the cut keeps one character more
PreviewOneMore(text, cutoff) ==
    IF Len(text) > cutoff THEN SubSeq(text, 1, cutoff + 1) \o Ellipsis ELSE text

\* x[:cutoff] + "..." if len(x) > cutoff else x
Preview(text, cutoff) ==
    IF Len(text) > cutoff THEN SubSeq(text, 1, cutoff) \o Ellipsis ELSE text

\* None where a text is optional: a value that is no sequence of characters
NoText == <<"None">>

\* Python truthiness of an optional text: None and "" are false
Truthy(text) == text # NoText /\ text # <<>>

\* `word in text`
Contains(text, word) ==
    \E i \in 1..(Len(text) - Len(word) + 1) :
        SubSeq(text, i, i + Len(word) - 1) = word

\* Variant: the markers are looked for in the preview
HasFailureMarkerInPreview(output) ==
    \/ Contains(Preview(output, OutputCutoff), ErrorMarker)
    \/ Contains(Preview(output, OutputCutoff), ExceptionMarker)

\* line 295: "Error" in output or "Exception" in output
HasFailureMarker(output) ==
    \/ Contains(output, ErrorMarker)
    \/ Contains(output, ExceptionMarker)

\* The texts the engine puts into its events
ThoughtTexts == {<<>>, ShortText, Pad(ThoughtCutoff), Pad(ThoughtCutoff + 1)}
ThinkingCodeTexts ==
    {<<>>, ShortText, Pad(ThinkingCodeCutoff), Pad(ThinkingCodeCutoff + 1)}
ExecutionCodeTexts ==
    {ShortText, Pad(ExecutionCodeCutoff), Pad(ExecutionCodeCutoff + 1)}
OutputTexts ==
    {NoText, <<>>, ShortText, ErrorMarker, ExceptionMarker, LowerError,
     Pad(OutputCutoff), Pad(OutputCutoff + 1),
     Pad(OutputCutoff) \o ErrorMarker,
     Pad(OutputCutoff - 2) \o ExceptionMarker,
     Pad(OutputCutoff) \o LowerError}
PlanThoughtTexts ==
    {<<>>, ShortText, Pad(PlanThoughtCutoff), Pad(PlanThoughtCutoff + 1)}
OptionalTexts == {NoText, <<>>, ShortText}

\* The events of handler.stream_events(): the eight recognized classes and
\* classes the interpreter does not know
RecognizedTypes ==
    {"TaskThinkingEvent", "TaskExecutionEvent", "TaskExecutionResultEvent",
     "TaskEndEvent", "ExecutorResultEvent", "ManagerPlanEvent",
     "CodeActResultEvent", "ScripterExecutorResultEvent"}
UnknownTypes == {"ScreenshotEvent", "StopEvent"}

Events ==
    [type : {"TaskThinkingEvent"}, thoughts : ThoughtTexts,
     code : ThinkingCodeTexts]
    \cup [type : {"TaskExecutionEvent"}, code : ExecutionCodeTexts]
    \cup [type : {"TaskExecutionResultEvent"}, output : OutputTexts]
    \cup [type : {"TaskEndEvent"}, success : BOOLEAN, reason : {ShortText}]
    \cup [type : {"ExecutorResultEvent"}, summary : OptionalTexts,
          outcome : BOOLEAN, error : OptionalTexts]
    \cup [type : {"ManagerPlanEvent"}, current_subgoal : OptionalTexts,
          thought : PlanThoughtTexts]
    \cup [type : {"CodeActResultEvent"}, success : BOOLEAN,
          reason : {ShortText}]
    \cup [type : {"ScripterExecutorResultEvent"}, success : BOOLEAN,
          message : {ShortText}]
    \cup [type : UnknownTypes]
NoEvent == [type |-> "none"]

\* agent.shared_state.step_number if hasattr(agent, "shared_state")
\* else last_step
CurrentStep(shared, step_number, own) == IF shared THEN step_number ELSE own

\* One call of logger.info / logger.debug / logger.warning
Line(level, tag, step, text) ==
    [level |-> level, tag |-> tag, step |-> step, text |-> text]

\* lines 276-284
ThinkingLines(e, cur) ==
    (IF Truthy(e.thoughts)
     THEN <<Line("INFO", "Thinking", cur + 1,
                 Preview(e.thoughts, ThoughtCutoff))>>
     ELSE <<>>)
    \o (IF Truthy(e.code)
        THEN <<Line("DEBUG", "Code", NoStep,
                    Preview(e.code, ThinkingCodeCutoff))>>
        ELSE <<>>)

\* lines 286-290
ExecutionLines(e, cur) ==
    <<Line("INFO", "Executing", cur + 1,
           Preview(e.code, ExecutionCodeCutoff))>>

\* lines 292-301
ExecutionResultLines(e, cur) ==
    LET output == IF Truthy(e.output) THEN e.output ELSE <<>> IN
    IF HasFailureMarker(output)
    THEN <<Line("WARNING", "Error", cur + 1, Preview(output, OutputCutoff))>>
    ELSE <<Line("INFO", "Result", cur + 1, Preview(output, OutputCutoff))>>

\* lines 304-307
EndLines(e) ==
    <<Line("INFO", IF e.success THEN "Task ok" ELSE "Task failed", NoStep,
           e.reason)>>

\* lines 310-317
ExecutorLines(e, cur) ==
    <<Line("INFO", IF e.outcome THEN "ok" ELSE "failed", cur,
           IF Truthy(e.summary) THEN e.summary ELSE ActionCompleted)>>
    \o (IF Truthy(e.error)
        THEN <<Line("WARNING", "  Error", NoStep, e.error)>>
        ELSE <<>>)

\* lines 320-326
PlanLines(e) ==
    (IF Truthy(e.current_subgoal)
     THEN <<Line("INFO", "Subgoal", NoStep, e.current_subgoal)>>
     ELSE <<>>)
    \o (IF Truthy(e.thought)
        THEN <<Line("DEBUG", "Thought", NoStep,
                    Preview(e.thought, PlanThoughtCutoff))>>
        ELSE <<>>)

\* lines 328-332
CodeActLines(e, cur) ==
    <<Line("INFO", IF e.success THEN "ok" ELSE "failed", cur, e.reason)>>

\* lines 335-338
ScripterLines(e) ==
    <<Line("INFO", IF e.success THEN "Script ok" ELSE "Script failed",
           NoStep, e.message)>>

\* lines 276-338: the isinstance chain; no branch for other classes
LogLines(e, cur) ==
    CASE e.type = "TaskThinkingEvent" -> ThinkingLines(e, cur)
      [] e.type = "TaskExecutionEvent" -> ExecutionLines(e, cur)
      [] e.type = "TaskExecutionResultEvent" -> ExecutionResultLines(e, cur)
      [] e.type = "TaskEndEvent" -> EndLines(e)
      [] e.type = "ExecutorResultEvent" -> ExecutorLines(e, cur)
      [] e.type = "ManagerPlanEvent" -> PlanLines(e)
      [] e.type = "CodeActResultEvent" -> CodeActLines(e, cur)
      [] e.type = "ScripterExecutorResultEvent" -> ScripterLines(e)
      [] OTHER -> <<>>

\* The lines of a batch that print a step number ("Step N/max ..."), and the
\* number the latest of them prints (prev if the batch has none)
StepLines(lines) == {i \in 1..Len(lines) : lines[i].step # NoStep}
LastPrinted(lines, prev) ==
    IF StepLines(lines) = {} THEN prev
    ELSE lines[CHOOSE i \in StepLines(lines) :
                   \A j \in StepLines(lines) : j <= i].step

\* Variant: every event counts as a step
NextLastStepEveryEvent(e, cur, own) == cur + 1

\* lines 302, 318, 333: the assignments to last_step
NextLastStep(e, cur, own) ==
    CASE e.type = "TaskExecutionResultEvent" -> cur + 1
      [] e.type = "ExecutorResultEvent" -> cur
      [] e.type = "CodeActResultEvent" -> cur
      [] OTHER -> own

\* Variant: the handle's result is replaced by a fresh success mapping
ReturnValueFresh(r) == [success |-> TRUE, output |-> ""]

\* lines 341-343: result = await handler; return result
ReturnValue(r) == r

InterpInit ==
    /\ ipc = "start"
    /\ has_shared \in BOOLEAN
    /\ shared_step = 0
    /\ last_step = 0
    /\ n_events = 0
    /\ last_event = NoEvent
    /\ last_lines = <<>>
    /\ n_lines = 0
    /\ printed_step = NoStep
    /\ final_result \in AgentResults
    /\ iret = NoAgentResult

\* lines 265-269: handler = agent.run(); last_step = 0; max_steps
AgentRun ==
    /\ ipc = "start"
    /\ ipc' = "stream"
    /\ last_step' = 0
    /\ UNCHANGED <<has_shared, shared_step, n_events, last_event, last_lines,
                   n_lines, printed_step, final_result, iret>>
    /\ UNCHANGED <<connVars, runVars, logVars, mainVars, statVars>>

\* The engine advances its step counter while the run goes on
EngineStep ==
    /\ ipc = "stream"
    /\ has_shared
    /\ shared_step < MaxStep
    /\ shared_step' = shared_step + 1
    /\ UNCHANGED <<ipc, has_shared, last_step, n_events, last_event,
                   last_lines, n_lines, printed_step, final_result, iret>>
    /\ UNCHANGED <<connVars, runVars, logVars, mainVars, statVars>>

\* lines 272-338: one iteration of `async for event in ...`
ConsumeEvent ==
    /\ ipc = "stream"
    /\ n_events < MaxEvents
    /\ \E e \in Events :
        LET cur == CurrentStep(has_shared, shared_step, last_step) IN
        /\ last_event' = e
        /\ last_lines' = LogLines(e, cur)
        /\ n_lines' = n_lines + Len(LogLines(e, cur))
        /\ printed_step' = LastPrinted(LogLines(e, cur), printed_step)
        /\ last_step' = NextLastStep(e, cur, last_step)
    /\ n_events' = n_events + 1
    /\ UNCHANGED <<ipc, has_shared, shared_step, final_result, iret>>
    /\ UNCHANGED <<connVars, runVars, logVars, mainVars, statVars>>

\* line 272: the stream raises instead of yielding; the exception leaves the
\* interpreter
StreamRaises ==
    /\ ipc = "stream"
    /\ ipc' = "raised"
    /\ UNCHANGED <<has_shared, shared_step, last_step, n_events, last_event,
                   last_lines, n_lines, printed_step, final_result, iret>>
    /\ UNCHANGED <<connVars, runVars, logVars, mainVars, statVars>>

\* line 272: the stream is exhausted and the loop is left
StreamEnd ==
    /\ ipc = "stream"
    /\ ipc' = "await"
    /\ UNCHANGED <<has_shared, shared_step, last_step, n_events, last_event,
                   last_lines, n_lines, printed_step, final_result, iret>>
    /\ UNCHANGED <<connVars, runVars, logVars, mainVars, statVars>>

\* lines 341-343: await the handle and return what it yields
AwaitHandler ==
    /\ ipc = "await"
    /\ iret' = ReturnValue(final_result)
    /\ ipc' = "returned"
    /\ UNCHANGED <<has_shared, shared_step, last_step, n_events, last_event,
                   last_lines, n_lines, printed_step, final_result>>
    /\ UNCHANGED <<connVars, runVars, logVars, mainVars, statVars>>

InterpNext ==
    \/ AgentRun
    \/ EngineStep
    \/ ConsumeEvent
    \/ StreamRaises
    \/ StreamEnd
    \/ AwaitHandler

-----------------------------------------------------------------------------
(* DeviceManager._get_device_status as a function of the serial it is     *)
(* asked for and of what "adb devices" answers.                            *)

NoStatusCall == [pc |-> "idle"]

\* device_manager.py 100, 162: the manager asks for the status of the resolved
\* serial of one of its devices; the command answers with some listing or
\* fails
StatusCall ==
    /\ status_call.pc = "idle"
    /\ \E d \in ConfDevices, out \in AdbDevicesOutcomes :
          /\ ResolveSerial(device_configs[d]).ok
          /\ status_call' = [pc |-> "called",
                             serial |-> ResolveSerial(device_configs[d]).serial,
                             out |-> out]
    /\ UNCHANGED <<connVars, runVars, logVars, itpVars, mainVars>>

\* device_manager.py 171-182: the value _get_device_status returns
StatusReturn ==
    /\ status_call.pc = "called"
    /\ status_call' = [pc |-> "returned",
                       serial |-> status_call.serial,
                       out |-> status_call.out,
                       ret |-> GetDeviceStatus(status_call.serial,
                                               status_call.out)]
    /\ UNCHANGED <<connVars, runVars, logVars, itpVars, mainVars>>

StatusNext ==
    \/ StatusCall
    \/ StatusReturn

-----------------------------------------------------------------------------
(* main.py: main().  connect_all and run_all are single steps here; what    *)
(* they can hand back is what SpecConnect and SpecRun show them to produce. *)

\* The devices connect_all can return: each configured device whose serial
\* resolves may or may not end up connected
Connectable == {d \in ConfDevices : ResolveSerial(device_configs[d]).ok}

RECURSIVE ConnectedOf(_, _)
ConnectedOf(S, i) ==
    IF i = 0 THEN <<>>
    ELSE IF i \in S
         THEN Append(ConnectedOf(S, i - 1),
                     [name |-> i,
                      serial |-> ResolveSerial(device_configs[i]).serial,
                      device_type |-> DeviceType(device_configs[i])])
         ELSE ConnectedOf(S, i - 1)

\* How one device task can end: a stored success, a stored failure, a caught
\* exception, or an exception that left the task (result named "unknown")
TaskOutcomes == {"success", "failure", "exception", "unknown"}

OutcomeResult(name, o) ==
    CASE o = "success" ->
            StoreResult(TaskResult(name), [success |-> TRUE, output |-> "done"])
      [] o = "failure" ->
            StoreResult(TaskResult(name),
                        [success |-> FALSE, output |-> "gave up"])
      [] o = "exception" ->
            ExceptResult(TaskResult(name), "model timeout")
      [] o = "unknown" ->
            [TaskResult("unknown") EXCEPT !.error = "model timeout"]

\* Exit status of the process, kept in mpc once main has exited
Exit(code) == "exit" \o ToString(code)

\* main.py 113: failed_count = sum(1 for r in results if not r.success)
FailedCount(rs) == Len(rs) - SuccessCount(rs)

mainFrame == <<device_configs, cpc, attempt, serial, checks, connects,
               disconnects, delays, pending_cmd, cm_pc, concurrency, sem,
               holders, result, agent_result, raised, loggers,
               handlers, files_created, close_calls, summary, dlog>>

\* What main can see of a run: whether run_all was entered and how it was
\* left, the header, the tasks launched and the log files named for them
runTrace == <<rpc, console, tpc, log_files>>

\* multi_runner.py 100-103, 145, device_logger.py 40-41: one task per
\* connected device, each naming its log file
LaunchedTasks(devs, o) ==
    [d \in Devices |->
        IF d <= Len(devs)
        THEN (IF o[d] = "unknown" THEN "raised" ELSE "returned")
        ELSE tpc[d]]
LaunchedLogFiles(devs) ==
    [n \in {DeviceName(devs[i].name) : i \in 1..Len(devs)} |-> LogPath(n, now)]

\* main.py 53-79: load api, device, execution and task configuration.  A
\* missing file (FileNotFoundError), an invalid one (ValueError) or an empty
\* list of enabled devices ends the process with status 1.
MainLoad ==
    /\ mpc = "start"
    /\ \/ mpc' = "connect"
       \/ mpc' = Exit(1)
    /\ UNCHANGED <<connected_devices, task_results, mainFrame, runTrace>>
    /\ UNCHANGED <<logVars, itpVars, statVars>>

\* Variant: an empty list of connected devices is let through
NoneConnectedLetThrough(devs) == FALSE

\* main.py 86: `if not connected_devices`
NoneConnected(devs) == devs = <<>>

\* main.py 83-88: connect_all; no connected device ends the process with 1
MainConnect ==
    /\ mpc = "connect"
    /\ \E S \in SUBSET Connectable :
          /\ connected_devices' = ConnectedOf(S, NumConfigured)
          /\ mpc' = IF NoneConnected(connected_devices')
                    THEN Exit(1) ELSE "connected"
    /\ UNCHANGED <<task_results, mainFrame, runTrace>>
    /\ UNCHANGED <<logVars, itpVars, statVars>>

\* main.py 102-110, 120-122: run_all.  The header is printed first
\* (multi_runner.py 92).  A negative concurrency makes asyncio.Semaphore
\* raise ValueError, caught at line 120; with concurrency 0 no task passes
\* the gate and run_all does not return.
MainRun ==
    /\ mpc = "connected"
    /\ concurrency # 0
    /\ console' = [console EXCEPT !.header = @ + 1]
    /\ IF concurrency < 0
       THEN /\ mpc' = Exit(1)
            /\ rpc' = "raised"
            /\ UNCHANGED <<task_results, tpc, log_files>>
       ELSE /\ \E o \in [1..Len(connected_devices) -> TaskOutcomes] :
                  /\ task_results' =
                        [i \in 1..Len(connected_devices) |->
                            OutcomeResult(DeviceName(connected_devices[i].name),
                                          o[i])]
                  /\ tpc' = LaunchedTasks(connected_devices, o)
            /\ log_files' = LaunchedLogFiles(connected_devices)
            /\ rpc' = "returned"
            /\ mpc' = "ran"
    /\ UNCHANGED <<connected_devices, mainFrame>>
    /\ UNCHANGED <<logVars, itpVars, statVars>>

\* main.py 113-115: status 1 if any result is a failure; falling off the
\* end of main gives status 0
MainExit ==
    /\ mpc = "ran"
    /\ mpc' = IF FailedCount(task_results) > 0 THEN Exit(1) ELSE Exit(0)
    /\ UNCHANGED <<connected_devices, task_results, mainFrame, runTrace>>
    /\ UNCHANGED <<logVars, itpVars, statVars>>

\* main.py 123-125: KeyboardInterrupt while main is at work
MainInterrupt ==
    /\ mpc \in {"start", "connect", "connected", "ran"}
    /\ mpc' = Exit(130)
    /\ UNCHANGED <<connected_devices, task_results, mainFrame, runTrace>>
    /\ UNCHANGED <<logVars, itpVars, statVars>>

MainNext ==
    \/ MainLoad
    \/ MainConnect
    \/ MainRun
    \/ MainExit
    \/ MainInterrupt

-----------------------------------------------------------------------------
(* Specifications.  Each drives one component; the other one stays in the   *)
(* state it has before it is called.                                        *)
vars == <<connVars, runVars, logVars, itpVars, mainVars, statVars>>

ConnIdle ==
    /\ device_configs = Fleet(1)
    /\ cpc = [d \in ConfDevices |-> "start"]
    /\ attempt = [d \in ConfDevices |-> 0]
    /\ serial = [d \in ConfDevices |-> NoValue]
    /\ checks = [d \in ConfDevices |-> <<>>]
    /\ connects = [d \in ConfDevices |-> 0]
    /\ disconnects = [d \in ConfDevices |-> 0]
    /\ delays = [d \in ConfDevices |-> 0]
    /\ pending_cmd = [d \in ConfDevices |-> NoCommand]
    /\ cm_pc = "gather"
    /\ connected_devices = <<>>

RunIdle ==
    /\ console = NoConsole
    /\ dlog = EmptyMap
    /\ concurrency = 1
    /\ rpc = "start"
    /\ sem = 0
    /\ holders = {}
    /\ tpc = [d \in Devices |-> "unborn"]
    /\ result = [d \in Devices |-> TaskResult("")]
    /\ agent_result = [d \in Devices |-> NoAgentResult]
    /\ raised = [d \in Devices |-> NoException]
    /\ task_results = <<>>
    /\ loggers = EmptyMap
    /\ log_files = EmptyMap
    /\ handlers = {}
    /\ files_created = EmptyMap
    /\ close_calls = 0
    /\ summary = <<>>

LogIdle ==
    /\ now = 0
    /\ lock = NoCaller
    /\ lpc = [c \in Callers |-> "idle"]
    /\ larg = [c \in Callers |-> ""]
    /\ lret = [c \in Callers |-> <<>>]

ItpIdle ==
    /\ ipc = "start"
    /\ has_shared = FALSE
    /\ shared_step = 0
    /\ last_step = 0
    /\ n_events = 0
    /\ last_event = NoEvent
    /\ last_lines = <<>>
    /\ n_lines = 0
    /\ printed_step = NoStep
    /\ final_result = NoAgentResult
    /\ iret = NoAgentResult

MainIdle == mpc = "start" /\ status_call = NoStatusCall

InitConnect == ConnInit /\ RunIdle /\ LogIdle /\ ItpIdle /\ MainIdle
NextConnect == ConnNext
SpecConnect == InitConnect /\ [][NextConnect]_vars

InitRun == RunInit /\ ConnIdle /\ LogIdle /\ ItpIdle /\ MainIdle
NextRun == RunNext
SpecRun == InitRun /\ [][NextRun]_vars

InitLogger == RunIdle /\ ConnIdle /\ LogIdle /\ ItpIdle /\ MainIdle
SpecLogger == InitLogger /\ [][LoggerNext]_vars

InitAbort == InitRun

InitInterp == InterpInit /\ RunIdle /\ ConnIdle /\ LogIdle /\ MainIdle
SpecInterp == InitInterp /\ [][InterpNext]_vars
SpecAbort == InitAbort /\ [][AbortNext]_vars

\* The dispatcher with engine runs that may hang.  The event loop runs a
\* ready coroutine whenever there is one, so a step that can be taken is
\* taken in the end; a hung engine run never becomes ready again.
InitHang == InitRun
SpecHang == InitHang /\ [][HangNext]_vars
SpecHangFair == SpecHang /\ WF_vars(HangNext)

\* The dispatcher with engine runs that all finish or raise, under the same
\* scheduling: a coroutine that is ready to run is run in the end.
SpecRunFair == SpecRun /\ WF_vars(NextRun)

\* _get_device_status on every resolved serial and every listing
InitStatus == InitConnect
SpecStatus == InitStatus /\ [][StatusNext]_vars

\* main() from the configuration files to the exit status
InitMain == ConnInit /\ RunInit /\ LogIdle /\ ItpIdle /\ MainIdle
SpecMain == InitMain /\ [][MainNext]_vars

-----------------------------------------------------------------------------
(* Properties of the dispatcher (SpecRun) *)

Working == {d \in Devices : tpc[d] \in WorkPcs}
Settled(d) == tpc[d] \in TaskTerminal
RaisedInBody(d) == raised[d].where \in WorkPcs

\* C1: for every concurrency bound C >= 1 and every number of devices, at most
\* C device tasks are between acquire and release of the semaphore at any time.
C1_GateBound ==
    concurrency >= 1 =>
        /\ Cardinality(holders) <= concurrency
        /\ sem = concurrency - Cardinality(holders) \/ rpc \in {"start", "try"}

\* C1 witness: the gate is full (C = 2 holders) while another task waits at it.
C1_Witness ==
    /\ concurrency = 2
    /\ Cardinality(holders) = 2
    /\ \E d \in Devices : tpc[d] = "acquire"

\* C2: run_all returns exactly one TaskResult per device, also when every
\* device task raises (engine construction, event consumption, extraction).
C2_ResultCount ==
    rpc = "returned" => Len(task_results) = NumDevices

\* C2 witness: run_all has returned although every task raised, among them one
\* at engine construction, one in event consumption, one at result extraction.
C2_Witness ==
    /\ rpc = "returned"
    /\ \A d \in Devices : raised[d].where # "none"
    /\ raised[1].where = "agent"
    /\ raised[2].where = "events"
    /\ raised[3].where = "store"

\* What a device's own inputs (the exception raised in its task, if any, and
\* the value its engine handle yielded) determine for its TaskResult.
OwnOutcome(d) ==
    IF raised[d].where = "none"
    THEN [success |-> Get(agent_result[d], "success", FALSE),
          output |-> Get(agent_result[d], "output", ""),
          error |-> ""]
    ELSE [success |-> FALSE, output |-> "", error |-> raised[d].msg]

Outcome(r) == [success |-> r.success, output |-> r.output, error |-> r.error]

\* C3: fault isolation.  Once every task has settled and the join is over, each
\* device has its TaskResult, and its success flag, output and error are those
\* its own inputs determine, whatever the other tasks did (raise or not): two
\* runs that differ only in another device's exception agree on it.  No
\* exception of a task ends the join early.
C3_FaultIsolation ==
    ((\A d \in Devices : Settled(d)) /\ rpc # "gather") =>
        /\ Len(task_results) = NumDevices
        /\ \A d \in Devices : Outcome(task_results[d]) = OwnOutcome(d)

\* C3 witness: a returned run in which device 1 raised (outside the task's own
\* try block, so the exception reached the join) and device 2 succeeded.
C3_Witness ==
    /\ rpc = "returned"
    /\ raised[1].where = "logger"
    /\ raised[2].where = "none"
    /\ task_results[2].success
    /\ task_results[2].output = "done"

\* C7: a task holds a gate slot during all its device-facing and model-facing
\* work, has released it before it prints its result line and returns, and
\* when run_all returns every slot is free.
C7_GateDiscipline ==
    /\ \A d \in Devices : tpc[d] \in WorkPcs => d \in holders
    /\ \A d \in Devices : tpc[d] \in {"done", "returned"} => d \notin holders
    /\ rpc = "returned" => (sem = concurrency /\ holders = {})

\* C7 witness: run_all has returned, one task left the gate by a caught
\* exception and another by normal completion, and all slots are free.
C7_Witness ==
    /\ rpc = "returned"
    /\ sem = concurrency
    /\ \E d \in Devices : RaisedInBody(d)
    /\ \E d \in Devices : raised[d].where = "none"

\* C8: with concurrency 1 the device-facing work of two tasks never overlaps.
C8_Sequential ==
    concurrency = 1 => Cardinality(Working) <= 1

\* C8 witness: C = 1, device 1 has released the gate and device 2 is doing its
\* device-facing work while device 3 still waits at the gate.
C8_Witness ==
    /\ concurrency = 1
    /\ tpc[1] \in {"done", "returned"}
    /\ tpc[2] \in WorkPcs
    /\ tpc[3] = "acquire"

\* C9: a task whose body raised an exception with message m returns a
\* TaskResult with success = false, error = m and the duration set; the tasks
\* that did not raise return what their engine reported.
C9_ExceptionResult ==
    rpc = "returned" =>
        \A d \in Devices :
            /\ RaisedInBody(d) =>
                 task_results[d] =
                     [device_name |-> DeviceName(d), success |-> FALSE,
                      output |-> "", error |-> raised[d].msg,
                      duration |-> Elapsed]
            /\ raised[d].where = "none" =>
                 task_results[d] =
                     [device_name |-> DeviceName(d),
                      success |-> Get(agent_result[d], "success", FALSE),
                      output |-> Get(agent_result[d], "output", ""),
                      error |-> "", duration |-> Elapsed]

\* C9 witness: device 3's engine construction raised "model timeout" while
\* devices 1 and 2 succeeded, and run_all has returned.
C9_Witness ==
    /\ rpc = "returned"
    /\ raised[3] = [where |-> "agent", msg |-> "model timeout"]
    /\ task_results[1].success
    /\ task_results[2].success

\* C10: close_all runs at most once, and once when run_all returns; it runs
\* only when no launched task is unsettled; the summary is printed once, after
\* the cleanup and after every task has settled.
C10_CleanupThenSummary ==
    /\ close_calls <= 1
    /\ close_calls = 1 => \A d \in Devices : tpc[d] \in TaskTerminal \cup {"unborn"}
    /\ Len(summary) <= 1
    /\ Len(summary) = 1 =>
          (close_calls = 1 /\ \A d \in Devices : tpc[d] \in TaskTerminal)
    /\ rpc = "returned" => (close_calls = 1 /\ Len(summary) = 1)

\* C10 witness: every task has settled (one by an exception captured by the
\* join, one by a returned result), cleanup ran once, the summary is printed.
C10_Witness ==
    /\ rpc = "returned"
    /\ close_calls = 1
    /\ Len(summary) = 1
    /\ \E d \in Devices : tpc[d] = "raised"
    /\ \E d \in Devices : tpc[d] = "returned"

-----------------------------------------------------------------------------
(* Properties of the connection manager (SpecConnect) *)

Resolves(d) == ResolveSerial(device_configs[d]).ok
NeverDevice(d) == \A i \in 1..Len(checks[d]) : checks[d][i] # "device"
TimesConnected(d) ==
    Cardinality({i \in 1..Len(connected_devices) : connected_devices[i].name = d})

\* k "offline" answers followed by "device"
OfflineThenDevice(h) ==
    /\ h # <<>>
    /\ h[Len(h)] = "device"
    /\ \A i \in 1..(Len(h) - 1) : h[i] = "offline"

\* C4 as stated: any device of a known kind whose status check never returns
\* "device" gets exactly max_retry status checks and is absent from the list
\* connect_all returns, and connect_all does not raise.
C4_AsStated ==
    /\ cm_pc # "raised"
    /\ cm_pc = "returned" =>
         \A d \in ConfDevices :
            (KnownKind(device_configs[d]) /\ NeverDevice(d)) =>
                (Len(checks[d]) = max_retry /\ TimesConnected(d) = 0)

\* C4 amended: the same for a device of a known kind whose addressing fields
\* are present (host and port for wireless); a device whose serial cannot be
\* resolved gets no status check at all and is absent as well.
C4_RetryBound ==
    /\ cm_pc # "raised"
    /\ cm_pc = "returned" =>
         \A d \in ConfDevices :
            /\ (Resolves(d) /\ NeverDevice(d)) =>
                  (Len(checks[d]) = max_retry /\ TimesConnected(d) = 0)
            /\ ~Resolves(d) => (Len(checks[d]) = 0 /\ TimesConnected(d) = 0)
    /\ \A d \in ConfDevices : Len(checks[d]) <= max_retry

\* C4 witness: connect_all returned after a device used up its max_retry checks
\* without ever seeing "device".
C4_Witness ==
    /\ cm_pc = "returned"
    /\ \E d \in ConfDevices :
          /\ Resolves(d)
          /\ NeverDevice(d)
          /\ Len(checks[d]) = max_retry
          /\ cpc[d] = "ConnectionError"

\* C5: connect_all never raises; it returns each device once if the device's
\* serial resolves and one of its status checks answered "device", and not at
\* all otherwise: a function of the device's own configuration and responses.
C5_IsolatedConnect ==
    /\ cm_pc # "raised"
    /\ cm_pc = "returned" =>
         \A d \in ConfDevices :
            TimesConnected(d) =
                IF Resolves(d) /\ ~NeverDevice(d) THEN 1 ELSE 0
    /\ cm_pc = "returned" =>
         \A i \in 1..Len(connected_devices) :
            connected_devices[i] = ConnectedDevice(connected_devices[i].name)

\* C5 witness: connect_all returned one ready device although the other one
\* failed (configuration error or exhausted retries).
C5_Witness ==
    /\ cm_pc = "returned"
    /\ Len(connected_devices) = 1
    /\ \E d \in ConfDevices : cpc[d] \in Exceptions

\* C6 as stated: whatever the connection kind, k "offline" answers followed by
\* "device" leave the device connected after exactly k disconnect+reconnect
\* cycles.
C6_AsStated ==
    cm_pc = "returned" =>
        \A d \in ConfDevices :
            OfflineThenDevice(checks[d]) =>
                (TimesConnected(d) = 1 /\ disconnects[d] = Len(checks[d]) - 1)

\* C6 amended: a wireless device with k "offline" answers followed by "device"
\* ends up connected after exactly k calls of the disconnect+reconnect helper
\* (one disconnect command each); a usb or emulator device with the same
\* answers ends up connected with no disconnect or connect command at all.
C6_ReconnectCycles ==
    cm_pc = "returned" =>
        \A d \in ConfDevices :
            OfflineThenDevice(checks[d]) =>
                /\ TimesConnected(d) = 1
                /\ DeviceType(device_configs[d]) = "wireless" =>
                      disconnects[d] = Len(checks[d]) - 1
                /\ DeviceType(device_configs[d]) # "wireless" =>
                      (disconnects[d] = 0 /\ connects[d] = 0)

\* C6 witness: a wireless device answered "offline", "offline", "device" and
\* is connected after two disconnect commands.
C6_Witness ==
    /\ cm_pc = "returned"
    /\ \E d \in ConfDevices :
          /\ DeviceType(device_configs[d]) = "wireless"
          /\ checks[d] = <<"offline", "offline", "device">>
          /\ disconnects[d] = 2
          /\ TimesConnected(d) = 1

-----------------------------------------------------------------------------
(* Properties of the release step (SpecAbort) *)

DispatchExited == rpc \in {"summary", "returned", "raised"}

\* C11: once the dispatch phase of run_all has been entered, close_all runs
\* exactly when that phase exits, by normal return or by an error raised in the
\* dispatcher (the gate cannot be built, the join is aborted); after
\* close_all no registered log destination has an open handler.
C11_ReleaseOnEveryExit ==
    /\ DispatchExited => close_calls = 1 /\ handlers = {}
    /\ ~DispatchExited => close_calls = 0

\* C11 witness: the join was aborted while a device task with an open log
\* file was mid-flight; the error left run_all after close_all closed it.
C11_Witness ==
    /\ rpc = "raised"
    /\ close_calls = 1
    /\ \E d \in Devices : tpc[d] = "cancelled" /\ HasLogger(loggers, DeviceName(d))
    /\ handlers = {}

-----------------------------------------------------------------------------
(* Properties of the logger registry (SpecLogger) *)

\* The calls for this name that have returned, as <<caller, index>>
ReturnedCalls(name) ==
    {x \in Callers \X (1..MaxCalls) :
        /\ x[2] <= Len(lret[x[1]])
        /\ lret[x[1]][x[2]].name = name
        /\ ~lret[x[1]][x[2]].raised}

\* The destinations these calls returned
ReturnedDests(name) == {lret[x[1]][x[2]].dest : x \in ReturnedCalls(name)}

\* The log files opened for this device
FilesOf(name) == {f \in DOMAIN files_created : f.device = name}

\* C12: get_logger is idempotent per device name under any interleaving of
\* calls: every call for a name returns the one destination that is
\* registered for it, a step taken once the name is registered changes
\* neither the registry entry nor the recorded path, and exactly one log file
\* exists for a registered device, opened exactly once.
C12_GetLoggerIdempotent ==
    [][\A name \in LogNames :
          /\ HasLogger(loggers, name) =>
                /\ loggers'[name] = loggers[name]
                /\ log_files'[name] = log_files[name]
                /\ FilesOf(name)' = FilesOf(name)
          /\ HasLogger(loggers', name) =>
                /\ ReturnedDests(name)' \subseteq {loggers'[name]}
                /\ log_files'[name] = loggers'[name]
                /\ FilesOf(name)' = {loggers'[name]}
                /\ files_created'[loggers'[name]] = 1
          /\ ~HasLogger(loggers', name) =>
                /\ ReturnedDests(name)' = {}
                /\ FilesOf(name)' = {}]_vars

\* C12 witness: every caller has asked for the same name and got a
\* destination, the later ones after the clock had moved on from the reading
\* the file was created with.
C12_Witness ==
    \E name \in LogNames :
        /\ \A c \in Callers : \E x \in ReturnedCalls(name) : x[1] = c
        /\ Cardinality(ReturnedDests(name)) = 1
        /\ HasLogger(loggers, name)
        /\ loggers[name].stamp < now

-----------------------------------------------------------------------------
(* Properties of the event-stream interpreter (SpecInterp) *)

Consumed == n_events > 0
Recognized == Consumed /\ last_event.type \in RecognizedTypes

\* C13: every recognized event is written as exactly one log line, or as two
\* lines when it is a thinking event that carries both a thought and a code
\* preview; no recognized event gives zero lines or more than two.
C13_AsStated ==
    Recognized =>
        \/ Len(last_lines) = 1
        \/ /\ Len(last_lines) = 2
           /\ last_event.type = "TaskThinkingEvent"
           /\ Truthy(last_event.thoughts)
           /\ Truthy(last_event.code)

\* The text was logged under the cutoff rule: cut to its first `cutoff`
\* characters followed by "..." if it is longer, unchanged otherwise
LoggedWithCutoff(text, cutoff, logged) ==
    IF Len(text) > cutoff
    THEN /\ Len(logged) = cutoff + 3
         /\ \A i \in 1..cutoff : logged[i] = text[i]
         /\ \A i \in (cutoff + 1)..(cutoff + 3) : logged[i] = "."
         /\ logged # text
    ELSE logged = text

\* Some line written for the last event has this tag and this text rule
LoggedAs(tag, text, cutoff) ==
    \E i \in 1..Len(last_lines) :
        /\ last_lines[i].tag = tag
        /\ LoggedWithCutoff(text, cutoff, last_lines[i].text)

\* What str(output) if output else "" gives
OutputText(e) == IF e.output \in {NoText, <<>>} THEN <<>> ELSE e.output

\* C14: a text longer than the cutoff of its category (thought 200, thinking
\* code 150, execution code 100, execution output 150, plan thought 150) is
\* logged as its first L characters followed by "...", never in full; a text
\* of at most L characters is logged unchanged.
C14_Truncation ==
    Recognized =>
        /\ last_event.type = "TaskThinkingEvent" =>
              /\ Truthy(last_event.thoughts) =>
                    LoggedAs("Thinking", last_event.thoughts, 200)
              /\ Truthy(last_event.code) =>
                    LoggedAs("Code", last_event.code, 150)
        /\ last_event.type = "TaskExecutionEvent" =>
              LoggedAs("Executing", last_event.code, 100)
        /\ last_event.type = "TaskExecutionResultEvent" =>
              \/ LoggedAs("Result", OutputText(last_event), 150)
              \/ LoggedAs("Error", OutputText(last_event), 150)
        /\ (last_event.type = "ManagerPlanEvent"
              /\ Truthy(last_event.thought)) =>
                  LoggedAs("Thought", last_event.thought, 150)

\* C14 witness: an execution-start event with a code text of 101 characters
\* was logged as 100 characters and "...".
C14_Witness ==
    /\ Recognized
    /\ last_event.type = "TaskExecutionEvent"
    /\ Len(last_event.code) = 101
    /\ Len(last_lines[1].text) = 103

\* The word occurs in the text, letter for letter
Occurs(word, text) ==
    \E k \in 0..Len(text) :
        /\ k + Len(word) <= Len(text)
        /\ \A j \in 1..Len(word) : text[k + j] = word[j]

\* C15: an execution-result event is logged at warning level exactly when
\* its full output contains "Error" or "Exception" (case-sensitive), and at
\* info level otherwise; a marker beyond the 150-character cutoff counts.
C15_WarningLevel ==
    (Recognized /\ last_event.type = "TaskExecutionResultEvent") =>
        /\ Len(last_lines) = 1
        /\ last_lines[1].level =
              IF \/ Occurs(ErrorMarker, OutputText(last_event))
                 \/ Occurs(ExceptionMarker, OutputText(last_event))
              THEN "WARNING" ELSE "INFO"

\* C15 witness: the marker starts after character 150, so the logged preview
\* does not show it, and the line is a warning.
C15_Witness ==
    /\ Recognized
    /\ last_event.type = "TaskExecutionResultEvent"
    /\ last_event.output = Pad(150) \o ErrorMarker
    /\ ~Occurs(ErrorMarker, last_lines[1].text)
    /\ last_lines[1].level = "WARNING"

\* A step that consumes one event
Consumes == n_events' = n_events + 1

\* C16: an event of an unrecognized type writes no log line, leaves the
\* last-seen step counter as it was and leaves the interpreter in the loop,
\* ready for the next event.
C16_UnrecognizedIgnored ==
    [][(Consumes /\ last_event'.type \notin RecognizedTypes) =>
          /\ n_lines' = n_lines
          /\ last_lines' = <<>>
          /\ last_step' = last_step
          /\ ipc' = "stream"
          /\ iret' = iret]_vars

\* C16 witness: an unrecognized event was consumed after an execution-result
\* event; the counter and the line count are those of the first event.
C16_Witness ==
    /\ n_events = 2
    /\ last_event.type \in UnknownTypes
    /\ ~has_shared
    /\ last_step = 1
    /\ n_lines = 1
    /\ ipc = "stream"

\* C17: the handle is awaited only once the stream is exhausted, the step
\* that follows exhaustion is the await, and what the interpreter returns is
\* the handle's final result, unchanged -- also when no event was consumed.
C17_AwaitAfterStream ==
    [][/\ (ipc' = "await" /\ ipc # "await") => ipc = "stream"
       /\ ipc = "await" => (ipc' = "returned" /\ iret' = final_result)
       /\ (ipc' = "returned" /\ ipc # "returned") => ipc = "await"
       /\ iret' # NoAgentResult => (ipc' = "returned" /\ iret' = final_result)
       /\ final_result' = final_result]_vars

\* C17 witness: the stream ended without a single event and the interpreter
\* returned the mapping the handle yielded.
C17_Witness ==
    /\ ipc = "returned"
    /\ n_events = 0
    /\ IsMapping(iret)
    /\ iret = final_result

ResultBearingTypes ==
    {"TaskExecutionResultEvent", "ExecutorResultEvent", "CodeActResultEvent"}

\* C18: without shared state the interpreter counts steps itself, and
\* last_step grows by one with every result-bearing event (execution result,
\* executor step outcome, code-act step outcome).
C18_AsStated ==
    [][(Consumes /\ ~has_shared /\ last_event'.type \in ResultBearingTypes) =>
          last_step' = last_step + 1]_vars

-----------------------------------------------------------------------------
(* Properties of the run summary (SpecRun) *)

Successes == {i \in 1..Len(task_results) : task_results[i].success}

\* C19: the summary of run_all reports as success count the number of
\* returned TaskResults with success = true and as total the number of
\* returned TaskResults.
C19_SummaryCounts ==
    rpc = "returned" =>
        /\ Len(summary) = 1
        /\ summary[1].success_count = Cardinality(Successes)
        /\ summary[1].total_count = Len(task_results)

\* C19 witness: three devices under concurrency 2, every task returning
\* success with output "done": the summary says 3/3.
C19_Witness ==
    /\ rpc = "returned"
    /\ concurrency = 2
    /\ Len(task_results) >= 3
    /\ \A i \in 1..Len(task_results) :
          task_results[i].success /\ task_results[i].output = "done"
    /\ summary[1].success_count = Len(task_results)
    /\ summary[1].total_count = Len(task_results)

\* The label the totals block is said to carry
ModeLabel(c) == IF c = 1 THEN <<"sequential">> ELSE <<"parallel", c>>

\* C20: the totals block of the summary carries a concurrency mode label,
\* "sequential" for C = 1 and "parallel (concurrency=C)" for C > 1.
C20_AsStated ==
    rpc = "returned" =>
        \A i \in 1..Len(summary) :
            /\ "mode" \in DOMAIN summary[i]
            /\ summary[i].mode = ModeLabel(concurrency)

-----------------------------------------------------------------------------
(* Further properties of the connection manager (SpecConnect) *)

IsWireless(d) == Get(device_configs[d], "type", "unknown") = "wireless"
LastCheck(d) == checks[d][Len(checks[d])]
ChecksNow(d) == Len(checks'[d]) = Len(checks[d]) + 1
NamesConnected == {connected_devices[i].name : i \in 1..Len(connected_devices)}

\* C26: for a wireless device a status check that gives neither "device" nor
\* "offline" is followed by the retry delay without a disconnect command;
\* a disconnect command is issued only after an "offline" status.
C26_AsStated ==
    [][\A d \in ConfDevices :
          /\ (IsWireless(d) /\ ChecksNow(d)
                /\ checks'[d][Len(checks'[d])] \notin {"device", "offline"})
                => cpc'[d] = "sleep"
          /\ disconnects'[d] > disconnects[d]
                => (checks[d] # <<>> /\ LastCheck(d) = "offline")]_vars

\* C27: for a wireless device every status check directly follows the
\* "connect host:port" command the ensure step issued in the same attempt;
\* whether that command failed or not, the ensure step leads to the status
\* check, and the result of the check alone decides how the attempt ends.
C27_ConnectBeforeCheck ==
    [][\A d \in ConfDevices :
          IsWireless(d) =>
            /\ ChecksNow(d) =>
                  /\ pending_cmd[d].cmd = "connect"
                  /\ pending_cmd[d].attempt = attempt[d]
                  /\ connects[d] >= Len(checks'[d])
                  /\ cpc'[d] = "ready" <=> checks'[d][Len(checks'[d])] = "device"
            /\ (cpc[d] = "ensure" /\ cpc'[d] # "ensure") =>
                  /\ cpc'[d] = "check"
                  /\ attempt'[d] = attempt[d]
                  /\ connects'[d] = connects[d] + 1
                  /\ pending_cmd'[d].cmd = "connect"
                  /\ pending_cmd'[d].attempt = attempt[d]]_vars

\* C27 witness: in its second attempt the connect command of a wireless
\* device failed, the attempt goes on, and the status check is what runs
\* next.
C27_Witness ==
    \E d \in ConfDevices :
        /\ IsWireless(d)
        /\ attempt[d] = 2
        /\ cpc[d] = "check"
        /\ pending_cmd[d] = Command("connect", 2, FALSE)
        /\ Len(checks[d]) = 1

\* C28: a device whose kind is none of wireless, usb, emulator fails at once,
\* with no status check, no transport command and no retry delay; it is not
\* in the connected set, and every other device is still attempted and, if
\* it got ready, returned.
C28_UnknownKindFailsAtOnce ==
    \A d \in ConfDevices :
        Get(device_configs[d], "type", "unknown")
            \notin {"wireless", "usb", "emulator"} =>
          /\ cpc[d] \in {"start", "ValueError"}
          /\ attempt[d] = 0
          /\ checks[d] = <<>>
          /\ connects[d] = 0 /\ disconnects[d] = 0 /\ delays[d] = 0
          /\ pending_cmd[d] = NoCommand
          /\ d \notin NamesConnected
          /\ cm_pc = "returned" =>
                /\ cpc[d] = "ValueError"
                /\ \A e \in ConfDevices : cpc[e] \in ConnTerminal
                /\ NamesConnected = {e \in ConfDevices : cpc[e] = "ready"}

\* C28 witness: connect_all returned; the device of unknown kind failed with
\* no step taken for it while the other device was retried and connected.
C28_Witness ==
    /\ cm_pc = "returned"
    /\ \E d, e \in ConfDevices :
          /\ Get(device_configs[d], "type", "unknown") = "bluetooth"
          /\ cpc[d] = "ValueError"
          /\ e \in NamesConnected
          /\ delays[e] > 0

-----------------------------------------------------------------------------
(* Properties of the device task's log, console lines and result (SpecRun) *)

TaskFailed(d) == raised[d] # NoException
TaskOver(d) == tpc[d] \in {"done", "returned", "raised"}
OwnLog(d) ==
    IF HasLogger(loggers, DeviceName(d))
    THEN Content(dlog, loggers[DeviceName(d)]) ELSE <<>>
Holds(lines, e) == \E i \in 1..Len(lines) : lines[i] = e

\* C24: when a device task has failed with an exception, the error text and
\* the stack trace are in that device's own log at error level (they were
\* written before close_all closed the destination, so they were not
\* dropped).
C24_AsStated ==
    \A d \in Devices :
        (TaskFailed(d) /\ TaskOver(d)) =>
            /\ Holds(OwnLog(d), Entry(d, "error", "failed"))
            /\ Holds(OwnLog(d), Entry(d, "error", "traceback"))

\* C25: every TaskResult returned by run_all had its duration set by its own
\* task; none keeps the duration 0 it was created with.
C25_AsStated ==
    rpc = "returned" =>
        \A i \in 1..Len(task_results) : task_results[i].duration # 0

\* C29: the console holds for each device exactly one "started" line and then
\* exactly one "done"/"failed" line, all after the one run header, and one
\* summary line after the done/failed lines of all devices; also for a
\* device whose task failed.
C29_AsStated ==
    /\ console.header = 0 => \A d \in Devices : console.dev[d] = <<>>
    /\ console.header <= 1
    /\ summary # <<>> => \A d \in Devices : Len(console.dev[d]) = 2
    /\ rpc = "returned" =>
          /\ console.header = 1
          /\ Len(summary) = 1
          /\ \A d \in Devices :
                /\ Len(console.dev[d]) = 2
                /\ console.dev[d][1] = "started"
                /\ console.dev[d][2] \in {"done", "failed"}

\* Position of a block's lines in the program order of _run_device_task
Rank ==
    [started |-> 1, tools |-> 2, llm |-> 3, agent |-> 4, execution |-> 5,
     completed |-> 6, failed |-> 7, traceback |-> 8]

\* C30: all the lines of one log file were written by one task, the task of
\* the device the file belongs to, and they appear in the order that task
\* wrote them; the log of a task that passed its "started" block starts with
\* that task's own "started" line.
C30_ExclusiveOrderedLog ==
    /\ \A p \in DOMAIN dlog :
          LET log == dlog[p] IN
          \A i \in 2..Len(log) :
              /\ log[i].writer = log[1].writer
              /\ Rank[log[i - 1].tag] < Rank[log[i].tag]
    /\ \A d \in Devices :
          (tpc[d] \notin {"unborn", "new"} /\ raised[d].where # "logger") =>
              LET log == OwnLog(d) IN
              /\ log # <<>>
              /\ log[1] = Entry(d, "info", "started")

\* C30 witness: two device tasks are inside the gate at once, each with
\* several lines in its own log, one of them already failed.
C30_Witness ==
    \E d, e \in Devices :
        /\ d # e
        /\ tpc[d] = "agent" /\ Len(OwnLog(d)) = 3
        /\ tpc[e] = "done" /\ TaskFailed(e) /\ Len(OwnLog(e)) = 5

-----------------------------------------------------------------------------
(* Properties of main (SpecMain) *)

InConnected(d) ==
    \E i \in 1..Len(connected_devices) : connected_devices[i].name = d
AllSucceeded ==
    /\ Len(task_results) = NumConfigured
    /\ \A d \in ConfDevices : InConnected(d)
    /\ \A i \in 1..Len(task_results) : task_results[i].success

\* C21: main exits with status 0 only when every configured device succeeded;
\* it exits with 1 when a device failed to connect or ended with a result
\* whose success is false.
C21_AsStated ==
    /\ mpc = "exit0" => AllSucceeded
    /\ (mpc \in {"exit0", "exit1"} /\ Len(connected_devices) > 0
          /\ ~AllSucceeded) => mpc = "exit1"

-----------------------------------------------------------------------------
(* Properties of the gate with hung engine runs (SpecHang, SpecHangFair) *)

Hung == {d \in Devices : tpc[d] = "hung"}
Queued == {d \in Devices : tpc[d] = "acquire"}
AllSlotsHung ==
    /\ sem = 0
    /\ holders \subseteq Hung
    /\ Cardinality(holders) = concurrency

\* C22: in the end every device task has settled or hangs in the engine,
\* except tasks queued at the gate while all C slots are held by hung tasks;
\* so with fewer than C hung tasks no task stays queued.
C22_HungSlotBlocksNoOther ==
    <>[](\/ rpc = "raised"
         \/ /\ \A d \in Devices :
                  \/ Settled(d)
                  \/ d \in Hung
                  \/ d \in Queued /\ AllSlotsHung
            /\ Cardinality(Hung) < concurrency => Queued = {})

\* C22 witness: one task hangs with a slot, C = 2, and the other tasks went
\* through the remaining slot one after the other and returned.
C22_Witness ==
    /\ concurrency = 2
    /\ Cardinality(Hung) = 1
    /\ Hung \subseteq holders
    /\ \A d \in Devices \ Hung : tpc[d] = "returned" /\ result[d].success

PastStarted(d) ==
    tpc[d] \in {"acquire", "hung", "done", "returned"} \cup WorkPcs
StartedPrinted(d) == console.dev[d] # <<>> /\ console.dev[d][1] = "started"
LoggerRaised(d) == raised[d].where = "logger"

-----------------------------------------------------------------------------
(* Properties of the retry loop (SpecConnect) *)

FirstDevice(h) ==
    IF \E i \in 1..Len(h) : h[i] = "device"
    THEN CHOOSE i \in 1..Len(h) : h[i] = "device" /\ \A j \in 1..(i - 1) : h[j] # "device"
    ELSE 0
Exhausted(d) == cpc[d] = "ConnectionError"

\* C33: the delay is applied only between two attempts: a device that used
\* up its max_retry attempts waited max_retry - 1 delays, none after the
\* last failed attempt.
C33_AsStated ==
    \A d \in ConfDevices :
        /\ Exhausted(d) => delays[d] = max_retry - 1
        /\ delays[d] <= max_retry - 1

\* C34 as stated: for every device, once it is ready or failed, the number of
\* status checks is the index of the first "device" answer if there is one
\* and max_retry otherwise.
C34_AsStated ==
    \A d \in ConfDevices :
        cpc[d] \in ConnTerminal =>
            Len(checks[d]) =
                IF FirstDevice(checks[d]) > 0
                THEN FirstDevice(checks[d]) ELSE max_retry

\* C34 amended: ready and failed are terminal for every device (no check,
\* transport command or delay after them); for a device whose serial
\* resolves the number of checks is the index of the first "device" answer,
\* at most max_retry, and max_retry when there is none; a device whose
\* serial does not resolve has no check; a device is in the connected set if
\* and only if one of its checks answered "device".
C34_TerminalStates ==
    /\ [](\A d \in ConfDevices :
            /\ Len(checks[d]) <= max_retry
            /\ cpc[d] = "ready" <=>
                  (checks[d] # <<>> /\ FirstDevice(checks[d]) = Len(checks[d]))
            /\ Exhausted(d) =>
                  (Len(checks[d]) = max_retry /\ FirstDevice(checks[d]) = 0)
            /\ cpc[d] \in {"KeyError", "ValueError"} => checks[d] = <<>>
            /\ cm_pc = "returned" =>
                  (d \in NamesConnected <=> FirstDevice(checks[d]) > 0))
    /\ [][\A d \in ConfDevices :
            cpc[d] \in ConnTerminal =>
                /\ cpc'[d] = cpc[d]
                /\ checks'[d] = checks[d]
                /\ connects'[d] = connects[d]
                /\ disconnects'[d] = disconnects[d]
                /\ delays'[d] = delays[d]
                /\ attempt'[d] = attempt[d]]_vars

\* C34 witness: connect_all returned with one device ready at its second
\* check and the other one failed after max_retry checks.
C34_Witness ==
    /\ cm_pc = "returned"
    /\ \E d, e \in ConfDevices :
          /\ cpc[d] = "ready" /\ Len(checks[d]) = 2
          /\ Exhausted(e) /\ Len(checks[e]) = max_retry
          /\ NamesConnected = {d}

\* C36: for a usb or emulator device no connect and no disconnect command is
\* ever issued, whatever its status checks answer.
C36_NoTransportCommand ==
    \A d \in ConfDevices :
        Get(device_configs[d], "type", "unknown") \in {"usb", "emulator"} =>
            /\ connects[d] = 0
            /\ disconnects[d] = 0
            /\ pending_cmd[d] = NoCommand
            /\ cpc[d] \notin {"ensure", "disconnect", "reconnect"}

\* C36 witness: a usb or emulator device answered "offline", then nothing,
\* and failed after max_retry checks without any transport command.
C36_Witness ==
    \E d \in ConfDevices :
        /\ Get(device_configs[d], "type", "unknown") \in {"usb", "emulator"}
        /\ Exhausted(d)
        /\ checks[d][1] = "offline"
        /\ checks[d][2] = NoValue
        /\ connects[d] = 0 /\ disconnects[d] = 0

-----------------------------------------------------------------------------
(* Properties of the returned results (SpecRun) *)

\* C31: in the list run_all returns, the i-th result carries the name of the
\* i-th device, also for a task that failed before the gate.
C31_AsStated ==
    rpc = "returned" =>
        \A i \in 1..Len(task_results) :
            task_results[i].device_name = DeviceName(i)

\* C35: in every result run_all returns, success = true implies an empty
\* error text.
C35_SuccessHasNoError ==
    rpc = "returned" =>
        \A i \in 1..Len(task_results) :
            task_results[i].success => task_results[i].error = ""

\* C35 witness: run_all returned a successful result with an empty error
\* next to a failed one that carries an error text.
C35_Witness ==
    /\ rpc = "returned"
    /\ \E i, j \in 1..Len(task_results) :
          /\ task_results[i].success /\ task_results[i].error = ""
          /\ ~task_results[j].success /\ task_results[j].error # ""

-----------------------------------------------------------------------------
(* Properties of main before the run (SpecMain) *)

RunNotEntered ==
    /\ rpc = "start"
    /\ console = NoConsole
    /\ log_files = EmptyMap
    /\ \A d \in Devices : tpc[d] = "unborn"
    /\ task_results = <<>>

\* C37: when no device is enabled or connect_all returns no device, main
\* exits with status 1 (130 on a keyboard interrupt) and run_all is never
\* entered: no header, no log file named, no task launched.
C37_NoDeviceNoRun ==
    connected_devices = <<>> =>
        /\ mpc \in {"start", "connect", Exit(1), Exit(130)}
        /\ RunNotEntered

\* C37 witness: connect_all returned no device and main exited with 1.
C37_Witness ==
    /\ mpc = Exit(1)
    /\ connected_devices = <<>>
    /\ Connectable # {}
    /\ RunNotEntered

-----------------------------------------------------------------------------
(* Properties of the printed step numbers (SpecInterp) *)

\* C38: the engine's step counter never decreasing, the step number printed
\* in successive step-bearing log lines never decreases, whatever the kinds
\* of the events: each step-bearing line an event writes prints a number not
\* below the one printed by the step-bearing line before it.
C38_AsStated ==
    [][n_events' = n_events + 1 =>
          /\ shared_step' >= shared_step
          /\ \A i \in StepLines(last_lines') :
                /\ printed_step = NoStep \/ printed_step <= last_lines'[i].step
                /\ \A j \in StepLines(last_lines') :
                      j <= i => last_lines'[j].step <= last_lines'[i].step]_vars

-----------------------------------------------------------------------------
(* Termination of the dispatcher (SpecRunFair) *)

\* A task that went through the gate: it returned its own result
WasAdmitted(d) == tpc[d] = "returned"

-----------------------------------------------------------------------------
(* Properties of the status lookup (SpecStatus) *)

LinesFor(ser, listing) == {k \in 1..Len(listing) : listing[k].serial = ser}

\* C32: the status returned for a serial is the second token of the listing
\* line whose serial equals it, and nothing when there is no such line; so
\* "device" is returned only if a line for exactly that serial says "device".
C32_AsStated ==
    status_call.pc = "returned" =>
        LET own == LinesFor(status_call.serial, status_call.out.listing) IN
        /\ status_call.ret = "device" =>
              \E k \in own : status_call.out.listing[k].status = "device"
        /\ own = {} => status_call.ret = NoValue

====
